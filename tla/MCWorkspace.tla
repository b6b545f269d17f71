---------------------------- MODULE MCWorkspace ----------------------------
\* Three requests, two of them in the taxonomy, and one failure; four moves around
\* a feed of one job a page.
EXTENDS Workspace, TLC

CONSTANTS lead, second, mixed, relisted, repost, ext1, ext2, ext3, url1, url2, url3, same, other

\* "mixed" has the external id of "lead" and the URL of "second", "relisted" a new id
\* and the URL of "lead".  "repost" is a new row for the vacancy of "lead", with more
\* skills, and the candidate fits it only with a new CV.
Ads == {lead, second, mixed, relisted, repost}
Delivered == <<lead, second>>
ExternalIds ==
  (lead :> ext1) @@ (second :> ext2) @@ (mixed :> ext1) @@ (relisted :> ext3) @@ (repost :> ext3)
Urls == (lead :> url1) @@ (second :> url2) @@ (mixed :> url2) @@ (relisted :> url1) @@ (repost :> url3)
Prints == [a \in Ads |-> IF a \in {lead, relisted, repost} THEN same ELSE other]
SkillCounts == [a \in Ads |-> IF a = repost THEN 2 ELSE 1]
MatchScores ==
  [v \in {1, 2} |-> [a \in Ads |-> IF a = repost /\ v = 1 THEN 0 ELSE IF a \in {mixed, repost} THEN 3 ELSE 2]]

Symmetric == Permutations(Request)
=============================================================================
