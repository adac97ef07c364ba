\* Two threads, three values, and two registrations.
SPECIFICATION Spec
CONSTANTS
    None = None
    t1 = t1
    t2 = t2
    p1 = p1
    p2 = p2
    p3 = p3
    Thread <- MCThreads
    Password <- MCPasswords
    MaxCounter = 4
PROPERTIES
    NeverReused
CHECK_DEADLOCK FALSE
