\* A second request can race a job that writes to the client.
CONSTANTS
    Requests = {"REGISTER", "UNREGISTER", "NETLINK"}
    MaxReq = 2
    MaxSends = 3
    CanClose = TRUE
SPECIFICATION Spec
\* The bounded client stops sending and wmediumd then waits in its loop.
CHECK_DEADLOCK FALSE
INVARIANT ClientGetsOwnReply

