SPECIFICATION Spec
CONSTANTS
    NoKey = NoKey
    NoRow = NoRow
    Gone = Gone
    nitter = nitter
    xcom = xcom
    status = status
    blog = blog
    vox = vox
    g1 = g1
    g2 = g2
    Keys <- HonestKeys
    Urls <- HonestUrls
    Canon <- CanonUrl
    StatusKey <- StatusOf
    Scanned <- ScannedUrls
    Posts <- HonestPosts
    Revs = {r1, r2}
INVARIANTS
    FetchedIsOffered
    MigratesOnce
    OneRowPerPost
