\* One request per connection: a monitor that only REGISTERs, a client that
\* submits one frame, or one that UNREGISTERs first; the client may close.
CONSTANTS
    Requests = {"REGISTER", "UNREGISTER", "NETLINK"}
    MaxReq = 1
    MaxSends = 3
    CanClose = TRUE
SPECIFICATION Spec
\* The bounded client stops sending and wmediumd then waits in its loop.
CHECK_DEADLOCK FALSE
INVARIANT ClientGetsOwnReply
PROPERTY RequestsAnswered
