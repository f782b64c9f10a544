---------------------------- MODULE MCFeedIdentity ---------------------------
(* Instances of FeedIdentity: a status page of nitter and x.com and an ordinary
   article; or an article of a site whose name ends in "x.com".              *)
EXTENDS FeedIdentity

CONSTANTS nitter, xcom, status, blog, vox, g1, g2

CanonUrl == [u \in Urls |-> IF u = nitter THEN xcom ELSE u]
StatusOf == [u \in Urls |-> IF u \in {nitter, xcom} THEN status ELSE NoKey]
ScannedUrls == Urls \cap {xcom, vox}

\* The same post twice, by two URLs, and an ordinary entry with an id.
HonestUrls == {nitter, xcom, blog}
HonestKeys == HonestUrls \cup {status, g1, g2}
HonestPosts == {[guid |-> g1, url |-> nitter], [guid |-> NoKey, url |-> xcom],
                [guid |-> g2, url |-> blog]}

LookalikeUrls == {vox}
LookalikeKeys == {vox, g2}
LookalikePosts == {[guid |-> g2, url |-> vox]}
=============================================================================
