\* Directory mode, one caller, a server that may stop answering for good.
CONSTANTS
    e1 = e1  e2 = e2  star = star  p1 = p1  p2 = p2  d1 = d1  d2 = d2
    c1 = c1  c2 = c2  pe = pe
    Emails = {e1, e2}
    Wildcard = star
    Passwords = {p1, p2}
    DNs = {d1, d2}
    DirMail <- MCDirMail
    Callers = {c1}
    UseLdap = TRUE
    InitialRows <- MCInitialRows
    MaxId = 2
    PageArgs <- MCPageArgs
    ActiveFlags = {TRUE}
    GetDnMayFail = FALSE
    EmptyPw = pe
    UnauthBind = FALSE
    MayHang = TRUE
    NULL = NULL
SPECIFICATION HangSpec
PROPERTY CallsReturn
