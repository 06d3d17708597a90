SPECIFICATION SitesSpec
CONSTANTS
    Host = {i1, i2}
    Cert = {c1, c2}
    List = {l1}
    Item = {u1, u2}
    Secret = {s1, s2}
    Handler = {h1, h2}
    None = None
    Denied = Denied
    MaxRequests = 3
SYMMETRY Symmetry
INVARIANT SitesTypeOK
INVARIANT RequestConfHasOwner
INVARIANT ListedHasFiles
INVARIANT HtpasswdFollowsItems
INVARIANT DeletedListUnused
INVARIANT PagesFollowRows
PROPERTY OutageHasOwner
CHECK_DEADLOCK FALSE
