------------------------------- MODULE Startup -------------------------------
(***************************************************************************)
(* main() of src/wmediumd/wmediumd.c up to its scheduler loop: the getopt  *)
(* loop over the command line, the checks after it, load_config() on the   *)
(* configuration file, the choice of netlink and its set-up, and the       *)
(* transports opened before the loop.  The outcome is how the process     *)
(* ends (exit(EXIT_SUCCESS), EXIT_FAILURE) or that it runs, with what.    *)
(*                                                                         *)
(* A command-line word is a record: an option letter with its argument    *)
(* where it takes one, "?" for what getopt() rejects (an unknown option,  *)
(* or one missing its argument: the option string has no leading ':', so  *)
(* the ':' case of the switch is never taken), or "pos" for a non-option  *)
(* word, which GNU getopt() moves behind the options.                      *)
(***************************************************************************)
EXTENDS LinkConfig

(* 2^64 - 1 on the LP64 build.  TLC's integers are 32-bit; the code only  *)
(* compares it with itself and with 7, so the largest TLC integer stands  *)
(* for it.                                                                 *)
ULONG_MAX == 2147483647

(* The -l arguments: in range, above it, empty, negative, trailing junk.  *)
LogArgs == {"3", "9", "", "-1", "5x"}

(* strtoul(s, &end, 10): the value read, and whether end moved past s.    *)
(* A leading '-' negates in unsigned arithmetic: "-1" is ULONG_MAX, with  *)
(* errno left alone (ERANGE is set only on overflow, which none of these *)
(* values reach).                                                          *)
strtoul(s) ==
    CASE s = "3"  -> [val |-> 3, read |-> TRUE, erange |-> FALSE]
      [] s = "9"  -> [val |-> 9, read |-> TRUE, erange |-> FALSE]
      [] s = "5x" -> [val |-> 5, read |-> TRUE, erange |-> FALSE]
      [] s = "-1" -> [val |-> ULONG_MAX, read |-> TRUE, erange |-> FALSE]
      [] OTHER    -> [val |-> 0, read |-> FALSE, erange |-> FALSE]

(* A -l test that reads the argument as a signed number.                  *)
LogLvlAcceptedSigned(s) ==
    LET r == strtoul(s)
        v == IF r.val = ULONG_MAX THEN -1 ELSE r.val
    IN  r.read /\ v <= 7

(* The -l test of the getopt loop: rejected on overflow (ULONG_MAX with    *)
(* ERANGE), when no digit was read, or above 7.                            *)
LogLvlAccepted(s) ==
    LET r == strtoul(s)
    IN  ~((r.val = ULONG_MAX /\ r.erange) \/ ~r.read \/ r.val > 7)

Words ==
    [o : {"h", "V", "n", "?", "pos", "c", "x", "t", "u", "a"}]
    \cup [o : {"l"}, arg : LogArgs]

(* What the loop leaves: the options seen, the log level, and the exit    *)
(* taken inside it ("none" while it goes on).                              *)
GetoptInit ==
    [exit |-> "none", lvl |-> 6, pos |-> FALSE,
     c |-> FALSE, x |-> FALSE, t |-> FALSE, u |-> FALSE, a |-> FALSE,
     n |-> FALSE]

(* while ((opt = getopt(...)) != -1) switch (opt): -h and -V exit at once, *)
(* with success; '?' and a rejected -l exit through print_help() with     *)
(* failure; the other options record what they name.                       *)
RECURSIVE Getopt(_, _)
Getopt(argv, st) ==
    IF argv = <<>> THEN st
    ELSE LET w    == Head(argv)
             rest == Tail(argv)
         IN  CASE w.o \in {"h", "V"} -> [st EXCEPT !.exit = "success"]
               [] w.o = "?"          -> [st EXCEPT !.exit = "failure"]
               [] w.o = "l"          ->
                    IF LogLvlAccepted(w.arg)
                    THEN Getopt(rest, [st EXCEPT !.lvl = strtoul(w.arg).val])
                    ELSE [st EXCEPT !.exit = "failure"]
               [] w.o = "pos"        -> Getopt(rest, [st EXCEPT !.pos = TRUE])
               [] OTHER              -> Getopt(rest, [st EXCEPT ![w.o] = TRUE])

Exit(code) ==
    [exit |-> code, lvl |-> 0, netlink |-> FALSE, vhost |-> FALSE,
     api |-> FALSE, timeCtl |-> FALSE]

(* A netlink choice that only follows -n.                                 *)
UseNetlinkForcedOnly(g) == g.n

(* use_netlink = force_netlink || !vusrv.socket                            *)
UseNetlink(g) == g.n \/ ~g.u

(* main(): no arguments at all, the getopt loop, a word left over, no -c,  *)
(* load_config() failing, then init_netlink() -- library calls that may   *)
(* fail -- when netlink is used; then the time control, vhost-user,       *)
(* netlink client and API socket are set up and the loop runs.  The set  *)
(* of outcomes.                                                            *)
main(argv, cf) ==
    LET g == Getopt(argv, GetoptInit)
        nl == UseNetlink(g)
    IN  IF argv = <<>> THEN {Exit("failure")}
        ELSE IF g.exit # "none" THEN {Exit(g.exit)}
        ELSE IF g.pos \/ ~g.c THEN {Exit("failure")}
        ELSE IF ~load_config(cf).ok THEN {Exit("failure")}
        ELSE (IF nl THEN {Exit("failure")} ELSE {})
             \cup {[exit |-> "running", lvl |-> g.lvl, netlink |-> nl,
                    vhost |-> g.u, api |-> g.a, timeCtl |-> g.t]}
=============================================================================
