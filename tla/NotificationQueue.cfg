\* Three threads, so that two can wait while a third posts or dequeues, and two
\* notifications, so that one can overtake the other.
CONSTANTS
    Threads = {t1, t2, t3}
    Notifications = {n1, n2}
    NoNf = NoNf
SPECIFICATION FairSpec
INVARIANTS
    TypeOK
    NoIdleWaiter
    NoForgottenWaiter
    ExactlyOnce
    Fifo
PROPERTIES
    ImplementsFairMailbox
