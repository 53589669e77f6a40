------------------------------ MODULE AlertOnce ------------------------------
(***************************************************************************)
(* What the checker of a board promises its subscriptions: an article is   *)
(* found once, each subscription it matches is then due an alert, and what *)
(* is due is sent once or dropped.  It is silent about feeds, PostgreSQL,  *)
(* structs, channels and goroutines: module ArticleAlerts is about those,  *)
(* and implements this one.                                                *)
(***************************************************************************)
EXTENDS Naturals

CONSTANTS Watches, Articles, Matches

VARIABLES
  found,    \* articles known as new
  due,      \* <<subscription, article>> to be alerted
  sent,     \* alerts of each
  dropped   \* articles of which some alert was given up

Pairs == Watches \X Articles

Init == found = {} /\ due = {} /\ sent = [p \in Pairs |-> 0] /\ dropped = {}

\* The subscriptions that articles concern.
Concerns(articles) == {p \in Watches \X articles : p[2] \in Matches[p[1]]}

\* Nothing is found again.
Find(articles) ==
  /\ articles \intersect found = {}
  /\ found' = found \union articles
  /\ due' = due \union Concerns(articles)
  /\ UNCHANGED <<sent, dropped>>

\* Only what is due is sent, in one message, and it is not due any more.
Send(w, articles) == LET alert == {w} \X articles IN
  /\ alert \subseteq due
  /\ due' = due \ alert
  /\ sent' = [p \in Pairs |-> IF p \in alert THEN sent[p] + 1 ELSE sent[p]]
  /\ UNCHANGED <<found, dropped>>

\* A Stop or the end of the process: all that is due of an article goes together.
Drop(articles) ==
  /\ articles \subseteq found
  /\ due' = {p \in due : p[2] \notin articles}
  /\ dropped' = dropped \union articles
  /\ UNCHANGED <<found, sent>>

Next == \E articles \in SUBSET Articles :
  \/ Find(articles) \/ Drop(articles)
  \/ \E w \in Watches : Send(w, articles)

Spec == Init /\ [][Next]_<<found, due, sent, dropped>>

-----------------------------------------------------------------------------
\* No alert is sent twice, and none to a subscription that is not concerned.
NeverTwice == \A p \in Pairs : sent[p] <= 1 /\ (sent[p] > 0 => p \in Concerns(found) \ due)

\* What concerns a subscription is sent, due, or dropped.
Accounted == \A p \in Concerns(found) : sent[p] > 0 \/ p \in due \/ p[2] \in dropped
=============================================================================
