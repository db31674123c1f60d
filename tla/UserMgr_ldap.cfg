\* Directory mode, two concurrent callers, no filter metacharacters in input;
\* the manager refines the atomic façade.  One directory entry, for the
\* regular user e2 whose stale local row it must win over.
CONSTANTS
    e1 = e1  e2 = e2  star = star  p1 = p1  p2 = p2  d1 = d1  d2 = d2
    c1 = c1  c2 = c2  pe = pe
    Emails = {e1, e2}
    Wildcard = star
    Passwords = {p1, p2}
    DNs = {d1}
    DirMail <- MCDirMailUser
    Callers = {c1, c2}
    UseLdap = TRUE
    InitialRows <- MCInitialRows
    MaxId = 2
    PageArgs <- MCPageArgs
    ActiveFlags = {TRUE}
    GetDnMayFail = FALSE
    EmptyPw = pe
    UnauthBind = FALSE
    MayHang = FALSE
    NULL = NULL
SPECIFICATION Spec
INVARIANT TypeOK AuthSound GetSound
PROPERTY Refines
SYMMETRY MCCallerSymmetry
