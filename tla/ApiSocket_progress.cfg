\* Two requests: the second can race a job's write and desynchronise the
\* stream; wmediumd's blocking ACK read must still return.
CONSTANTS
    Requests = {"REGISTER", "UNREGISTER", "NETLINK"}
    MaxReq = 2
    MaxSends = 3
    CanClose = TRUE
SPECIFICATION Spec
\* The bounded client stops sending and wmediumd then waits in its loop.
CHECK_DEADLOCK FALSE
PROPERTY AckReadReturns
