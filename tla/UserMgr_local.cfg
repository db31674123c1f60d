\* No directory configured: every call goes to the local table.  "*" is an
\* ordinary email here, so it is left out.  One caller suffices: every call is one statement.
CONSTANTS
    e1 = e1  e2 = e2  star = star  p1 = p1  p2 = p2  d1 = d1  d2 = d2
    c1 = c1  c2 = c2  pe = pe
    Emails = {e1, e2}
    Wildcard = star
    Passwords = {p1, p2}
    DNs = {d1}
    DirMail <- MCDirMailOne
    Callers = {c1}
    UseLdap = FALSE
    InitialRows <- MCInitialRows
    MaxId = 3
    PageArgs <- MCPageArgs
    ActiveFlags = {TRUE}
    GetDnMayFail = FALSE
    EmptyPw = pe
    UnauthBind = FALSE
    MayHang = FALSE
    NULL = NULL
SPECIFICATION Spec
PROPERTY ListBounded Refines
