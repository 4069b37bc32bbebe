------------------------- MODULE SubmissionsProofs -------------------------
(***************************************************************************)
(* Proofs about Submissions, for every set of users, sectors, articles,    *)
(* items and requests: what a digest promises holds whatever the requests  *)
(* that meet at its draft do, and Submissions implements WeeklyDigest.     *)
(***************************************************************************)
EXTENDS Submissions, TLAPS

Editing(r) == Stage(r) \in {"waiting", "locked"}

(* The reviewer of a digest is known once it is acknowledged, and is not    *)
(* its author.                                                              *)
RowOK ==
    \A d \in Digest :
        IF sub[d].status = "acked" THEN sub[d].ackedBy \in User \ {d.user}
        ELSE sub[d].ackedBy = NoUser

(* A request that edits a digest has seen to its row; edits and removals    *)
(* of an item, and no other request, name one; nobody is about to           *)
(* acknowledge the own digest.                                              *)
RequestOK ==
    \A r \in Request :
        /\ Editing(r) => sub[req[r].digest].status # "absent"
        /\ Editing(r) => (req[r].flag \in Flag <=> req[r].op \in {"update", "delete"})
        /\ Stage(r) = "reviewing" => req[r].user # req[r].digest.user

(* What a request checked under the lock stays true while it holds it, ... *)
Holds(q) ==
    /\ Editable(q.digest)
    /\ q.items = Filed(q.digest)
    /\ NewArticle(q)
    /\ q.op \in {"update", "delete"} => q.flag \in Filed(q.digest)
    /\ Sendable(q)

LockOK == \A r \in Request : Stage(r) = "locked" => Holds(req[r])

(* ... as nobody else holds the same lock.                                  *)
LockExclusive ==
    \A r, s \in Request :
        Stage(r) = "locked" /\ Stage(s) = "locked" /\ req[r].digest = req[s].digest => r = s

SInv ==
    /\ TypeOK /\ RowOK /\ RequestOK /\ LockOK /\ LockExclusive
    /\ DigestComplete /\ DeliveredIffSent /\ ArticleOnce /\ AckNotifiesAuthor

-----------------------------------------------------------------------------
(* The null values are not values. *)
LEMMA Nulls == NoUser \notin User /\ NoFlag \notin Flag
  BY NullsAssumption

(* A digest names its author and its sector. *)
LEMMA DigestFields ==
  ASSUME NEW d \in Digest
  PROVE  d.user \in User /\ d.sector \in Sector
  BY DEF Digest

(* What the directory names is a set of users. *)
LEMMA LeadsAreUsers ==
  ASSUME TypeOK, NEW d \in Digest
  PROVE  leads[d.sector] \in SUBSET User
<1>1. leads[d.sector] \in Boards
  BY DigestFields DEF TypeOK
<1> QED
  BY <1>1, UsersAssumption

(* A request under way is an edit or a review, with the fields of one.      *)
LEMMA RequestFields ==
  ASSUME TypeOK, NEW r \in Request
  PROVE  /\ req[r] \in {Idle} \cup Edit \cup Review
         /\ Editing(r) => req[r] \in Edit
         /\ Stage(r) = "reviewing" => req[r] \in Review
         /\ Stage(r) # "idle" => req[r].digest \in Digest
         /\ Stage(r) \in {"idle", "waiting", "locked", "reviewing"}
<1>1. req[r] \in {Idle} \cup Edit \cup Review
  BY DEF TypeOK
<1>2. CASE req[r] = Idle
  BY <1>2 DEF Idle, Stage, Editing
<1>3. CASE req[r] \in Edit
  BY <1>3 DEF Edit, Stage, Editing
<1>4. CASE req[r] \in Review
  BY <1>4 DEF Review, Stage, Editing
<1> QED
  BY <1>1, <1>2, <1>3, <1>4

(* The beginnings of the four kinds of edit. *)
BeginEdit(r) == BeginCreate(r) \/ BeginUpdate(r) \/ BeginDelete(r) \/ BeginSubmit(r)

(* Every edit begins with one of four operations. *)
LEMMA Beginnings ==
  ASSUME TypeOK, NEW r \in Request, BeginEdit(r)
  PROVE  \E op \in {"create", "update", "delete", "submit"}, d \in Digest,
            f \in Flag \cup {NoFlag}, link \in Link :
           Begin(r, op, d, f, link) /\ (f \in Flag <=> op \in {"update", "delete"})
<1> USE Nulls DEF Begin
<1>1. CASE BeginCreate(r)
  BY <1>1 DEF BeginCreate
<1>2. CASE BeginSubmit(r)
  BY <1>2 DEF BeginSubmit, Link
<1>3. CASE BeginUpdate(r)
  BY <1>3 DEF BeginUpdate
<1>4. CASE BeginDelete(r)
  BY <1>4 DEF BeginDelete, Link
<1> QED
  BY <1>1, <1>2, <1>3, <1>4 DEF BeginEdit

-----------------------------------------------------------------------------
(* Type correctness. *)
LEMMA TypeInit == Init => TypeOK
  BY WeekAssumption DEF Init, TypeOK, Row, Item, NoSub

(* The types of what each operation writes. *)
LEMMA ItemStepsType ==
  ASSUME TypeOK, NEW r \in Request, Create(r) \/ Update(r) \/ Delete(r)
  PROVE  /\ news' \in [Flag -> Item]
         /\ req' \in [Request -> {Idle} \cup Edit \cup Review]
<1>1. Stage(r) = "locked" /\ req' = [req EXCEPT ![r] = Idle]
  BY DEF Create, Update, Delete, Commit
<1>2. req[r] \in Edit
  BY <1>1, RequestFields DEF Editing
<1>3. Filing(req[r].digest, req[r].url) \in Item
  BY <1>2 DEF Edit, Filing, Item
<1>4. Removed \in Item
  BY DEF Item
<1>5. news' \in [Flag -> Item]
  BY <1>3, <1>4 DEF Create, Update, Delete, TypeOK
<1> QED
  BY <1>1, <1>5 DEF TypeOK

(* The end of a request, however it ends. *)
LEMMA IdleType ==
  ASSUME TypeOK, NEW r \in Request, req' = [req EXCEPT ![r] = Idle]
  PROVE  req' \in [Request -> {Idle} \cup Edit \cup Review]
  BY DEF TypeOK

(* The operations of the request threads keep the types. *)
LEMMA BeginType ==
  ASSUME TypeOK, NEW r \in Request, NEW d \in Digest,
         NEW op \in {"create", "update", "delete", "submit"},
         NEW f \in Flag \cup {NoFlag}, NEW link \in Link, Begin(r, op, d, f, link)
  PROVE  TypeOK'
<1> DEFINE edit == [stage |-> "waiting", op |-> op, digest |-> d, flag |-> f, url |-> link,
                    recipients |-> leads[d.sector], items |-> {}]
           row == [sub[d] EXCEPT !.status = IF @ = "absent" THEN "draft" ELSE @]
<1>1. edit \in Edit
  BY LeadsAreUsers DEF Edit
<1>2. row \in Row
  BY DEF TypeOK, Row
<1>3. req' = [req EXCEPT ![r] = edit] /\ sub' = [sub EXCEPT ![d] = row]
  BY DEF Begin
<1> HIDE DEF edit, row
<1>4. req' \in [Request -> {Idle} \cup Edit \cup Review]
  BY <1>1, <1>3 DEF TypeOK
<1>5. sub' \in [Digest -> Row]
  BY <1>2, <1>3 DEF TypeOK
<1> QED
  BY <1>4, <1>5 DEF Begin, TypeOK

LEMMA SubmitType ==
  ASSUME TypeOK, NEW r \in Request, Submit(r)
  PROVE  TypeOK'
<1>1. req[r] \in Edit /\ req' = [req EXCEPT ![r] = Idle]
  BY RequestFields DEF Submit, Commit, Editing
<1>2. [status |-> "submitted", ackedBy |-> NoUser, items |-> req[r].items] \in Row
  BY <1>1 DEF Edit, Row
<1>3. sub' \in [Digest -> Row]
  BY <1>2 DEF Submit, TypeOK
<1>4. Deliveries(req[r].digest, req[r].recipients) \subseteq Message
  BY <1>1, DigestFields DEF Deliveries, Message, Edit
<1> QED
  BY <1>1, <1>3, <1>4, IdleType DEF Submit, Commit, TypeOK

LEMMA AcknowledgeType ==
  ASSUME TypeOK, NEW r \in Request, Acknowledge(r)
  PROVE  TypeOK'
<1> DEFINE d == req[r].digest
<1>1. req[r] \in Review /\ req' = [req EXCEPT ![r] = Idle]
  BY RequestFields DEF Acknowledge
<1>2. d \in Digest /\ req[r].user \in User
  BY <1>1 DEF Review
<1>3. Notice(d, req[r].user) \in Message
  BY <1>2, DigestFields DEF Notice, Message
<1>4. [sub[d] EXCEPT !.status = "acked", !.ackedBy = req[r].user] \in Row
  BY <1>2 DEF TypeOK, Row
<1>5. /\ sub' = [sub EXCEPT ![d] = [sub[d] EXCEPT !.status = "acked", !.ackedBy = req[r].user]]
            \/ sub' = sub
      /\ inbox' = inbox \cup {Notice(d, req[r].user)} \/ inbox' = inbox
      /\ read' = read \cup {m \in inbox : m.digest = d /\ m.to = req[r].user}
  BY DEF Acknowledge
<1> HIDE DEF d
<1>6. sub' \in [Digest -> Row]
  BY <1>4, <1>5 DEF TypeOK
<1>7. inbox' \subseteq Message /\ read' \subseteq inbox'
  BY <1>3, <1>5 DEF TypeOK
<1> QED
  BY <1>1, <1>6, <1>7, IdleType DEF Acknowledge, TypeOK

(* Every step keeps the types. *)
LEMMA TypeStep == TypeOK /\ [Next]_vars => TypeOK'
<1> SUFFICES ASSUME TypeOK, [Next]_vars  PROVE TypeOK'
  OBVIOUS
<1>1. ASSUME NEW r \in Request, BeginEdit(r)  PROVE TypeOK'
  BY <1>1, Beginnings, BeginType
<1>2. ASSUME NEW r \in Request, Lock(r)  PROVE TypeOK'
  <2>1. req[r] \in Edit
    BY <1>2, RequestFields DEF Lock, Editing
  <2>2. Filed(req[r].digest) \in SUBSET Flag
    BY DEF Filed
  <2>3. [req[r] EXCEPT !.stage = "locked", !.items = Filed(req[r].digest)] \in Edit
    BY <2>1, <2>2 DEF Edit
  <2>4. req' = [req EXCEPT ![r] = [req[r] EXCEPT !.stage = "locked", !.items = Filed(req[r].digest)]]
    BY <1>2 DEF Lock
  <2> QED
    BY <1>2, <2>3, <2>4 DEF Lock, TypeOK
<1>3. ASSUME NEW r \in Request, Decline(r) \/ Fail(r)  PROVE TypeOK'
  BY <1>3, IdleType DEF Decline, Fail, TypeOK
<1>4. ASSUME NEW r \in Request, Create(r) \/ Update(r) \/ Delete(r)  PROVE TypeOK'
  BY <1>4, ItemStepsType DEF Create, Update, Delete, Commit, TypeOK
<1>5. ASSUME NEW r \in Request, Submit(r)  PROVE TypeOK'
  BY <1>5, SubmitType
<1>6. ASSUME NEW r \in Request, BeginReview(r)  PROVE TypeOK'
  <2>1. PICK u \in User, d \in Digest :
          req' = [req EXCEPT ![r] = [stage |-> "reviewing", user |-> u, digest |-> d]]
    BY <1>6 DEF BeginReview
  <2>2. [stage |-> "reviewing", user |-> u, digest |-> d] \in Review
    BY DEF Review
  <2> QED
    BY <1>6, <2>1, <2>2 DEF BeginReview, TypeOK
<1>7. ASSUME NEW r \in Request, Acknowledge(r)  PROVE TypeOK'
  BY <1>7, AcknowledgeType
<1>8. CASE ReadMessage
  BY <1>8 DEF ReadMessage, TypeOK
<1>9. CASE NextWeek
  BY <1>9, WeekAssumption DEF NextWeek, TypeOK
<1>10. CASE Reassign
  BY <1>10 DEF Reassign, TypeOK
<1>11. CASE UNCHANGED vars
  BY <1>11 DEF vars, TypeOK
<1> QED
  BY <1>1, <1>2, <1>3, <1>4, <1>5, <1>6, <1>7, <1>8, <1>9, <1>10, <1>11 DEF Next, BeginEdit

(* The tables, the calendar and the requests keep their types: no step      *)
(* writes a row, an item or a message that the schema would not take.       *)
THEOREM TypeCorrect == Spec => []TypeOK
  BY TypeInit, TypeStep, PTL DEF Spec

-----------------------------------------------------------------------------
(* The safety invariants hold initially, ... *)
LEMMA SafeInit == Init => SInv
<1> SUFFICES ASSUME Init  PROVE SInv
  OBVIOUS
<1>1. \A d \in Digest : sub[d] = NoSub /\ Filed(d) = {}
  BY DEF Init, Filed, Unused
<1>2. \A r \in Request : Stage(r) = "idle"
  BY DEF Init, Stage, Idle
<1>3. RowOK /\ RequestOK /\ LockOK /\ LockExclusive
  BY <1>1, <1>2 DEF RowOK, RequestOK, LockOK, LockExclusive, NoSub, Editing
<1>4. DigestComplete /\ DeliveredIffSent /\ ArticleOnce
  BY <1>1 DEF DigestComplete, DeliveredIffSent, ArticleOnce, Sent, NoSub, Init
<1>5. AckNotifiesAuthor
  BY <1>1 DEF AckNotifiesAuthor, NoSub, Init
<1> QED
  BY <1>3, <1>4, <1>5, TypeInit DEF SInv

(* ... through steps that leave the tables alone and at most end requests,  *)
LEMMA QuietStep ==
  ASSUME SInv, TypeOK', UNCHANGED <<sub, news, inbox>>, read \subseteq read',
         \A r \in Request : req'[r] = req[r] \/ req'[r] = Idle
  PROVE  SInv'
<1>1. \A d \in Digest : Filed(d)' = Filed(d)
  BY DEF Filed
<1>2. \A r \in Request : Stage(r)' # "idle" => req'[r] = req[r]
  BY DEF Stage, Idle
<1>3. RowOK'
  BY DEF SInv, RowOK
<1>4. RequestOK'
  BY <1>2 DEF SInv, RequestOK, Editing, Stage
<1>5. LockOK'
  <2> SUFFICES ASSUME NEW r \in Request, Stage(r)' = "locked"
               PROVE  Holds(req[r])'
    BY DEF LockOK
  <2>1. req'[r] = req[r] /\ Holds(req[r])
    BY <1>2 DEF Stage, SInv, LockOK
  <2> QED
    BY <2>1 DEF Holds, Editable, NewArticle, Repeated, Sendable, Filed
<1>8. LockExclusive'
  BY <1>2 DEF SInv, LockExclusive, Stage
<1>6. DigestComplete' /\ DeliveredIffSent' /\ ArticleOnce'
  BY <1>1 DEF SInv, DigestComplete, DeliveredIffSent, ArticleOnce, Sent
<1>7. AckNotifiesAuthor'
  BY DEF SInv, AckNotifiesAuthor
<1> QED
  BY <1>3, <1>4, <1>5, <1>6, <1>7, <1>8 DEF SInv

(* ... through the beginning of an edit, ...                                *)
LEMMA BeginStep ==
  ASSUME SInv, TypeOK', NEW r \in Request, NEW d \in Digest,
         NEW op \in {"create", "update", "delete", "submit"},
         NEW f \in Flag \cup {NoFlag}, NEW link \in Link,
         Begin(r, op, d, f, link), f \in Flag <=> op \in {"update", "delete"}
  PROVE  SInv'
<1>1. /\ Stage(r) = "idle" /\ Stage(r)' = "waiting"
      /\ req'[r].op = op /\ req'[r].flag = f /\ req'[r].digest = d
      /\ \A s \in Request \ {r} : req'[s] = req[s]
  BY DEF Begin, Stage, SInv, TypeOK
<1>2. \A e \in Digest :
        /\ sub'[e].status = IF e = d /\ sub[e].status = "absent" THEN "draft" ELSE sub[e].status
        /\ sub'[e].ackedBy = sub[e].ackedBy /\ sub'[e].items = sub[e].items
  BY DEF Begin, SInv, TypeOK, Row
<1>3. /\ \A e \in Digest : Filed(e)' = Filed(e)
      /\ \A e \in Digest : Sent(e)' = Sent(e)
  BY <1>2 DEF Filed, Sent, Begin
<1>4. RowOK'
  BY <1>2 DEF SInv, RowOK
<1>5. RequestOK'
  <2> SUFFICES ASSUME NEW s \in Request
               PROVE  /\ Editing(s)' => sub'[req'[s].digest].status # "absent"
                      /\ Editing(s)' => (req'[s].flag \in Flag <=> req'[s].op \in {"update", "delete"})
                      /\ Stage(s)' = "reviewing" => req'[s].user # req'[s].digest.user
    BY DEF RequestOK
  <2>1. CASE s = r
    BY <2>1, <1>1, <1>2 DEF Stage, Editing
  <2>2. CASE s # r
    BY <2>2, <1>1, <1>2, RequestFields DEF SInv, RequestOK, Stage, Editing
  <2> QED
    BY <2>1, <2>2
<1>6. LockOK' /\ LockExclusive'
  <2>1. \A s \in Request : Stage(s)' = "locked" => s # r /\ req'[s] = req[s] /\ Stage(s) = "locked"
    BY <1>1 DEF Stage
  <2>2. ASSUME NEW s \in Request, Stage(s)' = "locked"  PROVE Holds(req[s])'
    <3>1. req'[s] = req[s] /\ Holds(req[s]) /\ req[s].digest \in Digest
      BY <2>1, <2>2, RequestFields DEF SInv, LockOK
    <3> QED
      BY <3>1, <1>2 DEF Holds, Editable, NewArticle, Repeated, Sendable, Filed, Begin
  <2> QED
    BY <2>1, <2>2 DEF LockOK, LockExclusive, SInv
<1>7. DigestComplete' /\ DeliveredIffSent' /\ ArticleOnce'
  BY <1>2, <1>3 DEF SInv, DigestComplete, DeliveredIffSent, ArticleOnce, Begin
<1>8. AckNotifiesAuthor'
  BY <1>2 DEF SInv, AckNotifiesAuthor, Begin
<1> QED
  BY <1>4, <1>5, <1>6, <1>7, <1>8 DEF SInv

(* ... of a review, ...                                                     *)
LEMMA BeginReviewStep ==
  ASSUME SInv, TypeOK', NEW r \in Request, BeginReview(r)
  PROVE  SInv'
<1>1. /\ Stage(r)' = "reviewing" /\ req'[r].user # req'[r].digest.user
      /\ \A s \in Request \ {r} : req'[s] = req[s]
      /\ UNCHANGED <<sub, news, inbox, read>>
  BY DEF BeginReview, MayReview, Stage, SInv, TypeOK
<1>2. \A e \in Digest : Filed(e)' = Filed(e)
  BY <1>1 DEF Filed
<1>3. RequestOK'
  BY <1>1 DEF SInv, RequestOK, Editing, Stage
<1>4. LockOK'
  <2> SUFFICES ASSUME NEW s \in Request, Stage(s)' = "locked"
               PROVE  Holds(req[s])'
    BY DEF LockOK
  <2>1. req'[s] = req[s] /\ Holds(req[s])
    BY <1>1 DEF Stage, SInv, LockOK
  <2> QED
    BY <2>1, <1>1 DEF Holds, Editable, NewArticle, Repeated, Sendable, Filed
<1>5. LockExclusive' /\ RowOK'
  BY <1>1 DEF SInv, LockExclusive, RowOK, Stage
<1>6. DigestComplete' /\ DeliveredIffSent' /\ ArticleOnce'
  BY <1>1, <1>2 DEF SInv, DigestComplete, DeliveredIffSent, ArticleOnce, Sent
<1>7. AckNotifiesAuthor'
  BY <1>1 DEF SInv, AckNotifiesAuthor
<1> QED
  BY <1>3, <1>4, <1>5, <1>6, <1>7 DEF SInv

(* ... taking the lock, ...                                                 *)
LEMMA LockStep ==
  ASSUME SInv, TypeOK', NEW r \in Request, Lock(r)
  PROVE  SInv'
<1> DEFINE q == [req[r] EXCEPT !.stage = "locked", !.items = Filed(req[r].digest)]
<1>1. /\ Stage(r) = "waiting" /\ Stage(r)' = "locked" /\ req'[r] = q
      /\ \A s \in Request \ {r} : req'[s] = req[s]
      /\ UNCHANGED <<sub, news, inbox, read>>
  BY DEF Lock, Stage, SInv, TypeOK
<1>2. req[r] \in Edit /\ req[r].digest \in Digest
  BY <1>1, RequestFields DEF SInv, Editing
<1>3. q.digest = req[r].digest /\ q.op = req[r].op /\ q.flag = req[r].flag /\ q.url = req[r].url
      /\ q.recipients = req[r].recipients /\ q.items = Filed(req[r].digest)
  BY <1>2 DEF Edit
<1> HIDE DEF q
<1>4. \A e \in Digest : Filed(e)' = Filed(e)
  BY <1>1 DEF Filed
<1>5. RequestOK'
  BY <1>1, <1>3 DEF SInv, RequestOK, Editing, Stage
<1>6. LockOK'
  <2> SUFFICES ASSUME NEW s \in Request, Stage(s)' = "locked"
               PROVE  Holds(req[s])'
    BY DEF LockOK
  <2>1. CASE s = r
    <3>1. Accepts(req[r])
      BY DEF Lock
    <3>2. Holds(q)
      BY <3>1, <1>3 DEF Accepts, StillOwned, Holds, Editable, NewArticle, Sendable
    <3> QED
      BY <2>1, <3>2, <1>1 DEF Holds, Editable, NewArticle, Repeated, Sendable, Filed
  <2>2. CASE s # r
    <3>1. req'[s] = req[s] /\ Holds(req[s])
      BY <2>2, <1>1 DEF Stage, SInv, LockOK
    <3> QED
      BY <3>1, <1>1 DEF Holds, Editable, NewArticle, Repeated, Sendable, Filed
  <2> QED
    BY <2>1, <2>2
<1>7. LockExclusive'
  <2>1. \A s \in Request : Stage(s) = "locked" => req[s].digest # req[r].digest
    BY DEF Lock, LockFree
  <2> QED
    BY <2>1, <1>1, <1>3 DEF SInv, LockExclusive, Stage
<1>8. RowOK' /\ DigestComplete' /\ DeliveredIffSent' /\ ArticleOnce'
  BY <1>1, <1>4 DEF SInv, RowOK, DigestComplete, DeliveredIffSent, ArticleOnce, Sent
<1>9. AckNotifiesAuthor'
  BY <1>1 DEF SInv, AckNotifiesAuthor
<1> QED
  BY <1>5, <1>6, <1>7, <1>8, <1>9 DEF SInv

(* ... the steps that write an item: it is filed in the draft of the        *)
(* request, where it is the item the request names or a new one, or leaves  *)
(* it, ...                                                                  *)
LEMMA ItemWritten ==
  ASSUME SInv, NEW r \in Request, Create(r) \/ Update(r) \/ Delete(r)
  PROVE  /\ Stage(r) = "locked" /\ req[r] \in Edit /\ req[r].digest \in Digest /\ Holds(req[r])
         /\ \E f \in Flag :
              /\ news[f].state = "unused" \/ f \in Filed(req[r].digest)
              /\ IF req[r].op = "create" THEN news[f].state = "unused" ELSE f = req[r].flag
              /\ \A g \in Flag \ {f} : news'[g] = news[g]
              /\ \/ /\ req[r].op \in {"create", "update"}
                    /\ news'[f] = Filing(req[r].digest, req[r].url)
                 \/ req[r].op = "delete" /\ news'[f] = Removed
<1>1. Stage(r) = "locked" /\ req[r] \in Edit /\ req[r].digest \in Digest /\ Holds(req[r])
  BY RequestFields DEF Create, Update, Delete, Commit, SInv, LockOK, Editing
<1>2. req[r].op \in {"update", "delete"} => req[r].flag \in Filed(req[r].digest)
  BY <1>1 DEF Holds
<1>3. CASE Create(r)
  BY <1>1, <1>3 DEF Create, Commit, SInv, TypeOK
<1>4. CASE Update(r)
  BY <1>1, <1>2, <1>4 DEF Update, Commit, Filed, SInv, TypeOK
<1>5. CASE Delete(r)
  BY <1>1, <1>2, <1>5 DEF Delete, Commit, Filed, SInv, TypeOK
<1> QED
  BY <1>1, <1>3, <1>4, <1>5

(* Creating, updating or deleting an article keeps the invariant. *)
LEMMA ItemStep ==
  ASSUME SInv, TypeOK', NEW r \in Request, Create(r) \/ Update(r) \/ Delete(r)
  PROVE  SInv'
<1> DEFINE q == req[r]
           d == q.digest
<1>1. /\ Stage(r) = "locked" /\ q \in Edit /\ d \in Digest /\ Holds(q)
      /\ Stage(r)' = "idle"
      /\ \A s \in Request \ {r} : req'[s] = req[s]
      /\ UNCHANGED <<sub, inbox, read>>
  BY ItemWritten DEF Create, Update, Delete, Commit, SInv, TypeOK, Stage, Idle
<1>3. q.op = "create" => q.flag \notin Flag
  BY <1>1 DEF SInv, RequestOK, Editing
<1>4. PICK f \in Flag :
        /\ news[f].state = "unused" \/ f \in Filed(d)
        /\ IF q.op = "create" THEN news[f].state = "unused" ELSE f = q.flag
        /\ \A g \in Flag \ {f} : news'[g] = news[g]
        /\ \/ q.op \in {"create", "update"} /\ news'[f] = Filing(d, q.url)
           \/ q.op = "delete" /\ news'[f] = Removed
  BY ItemWritten
<1>5. sub[d].status = "draft" /\ ~Sent(d) /\ NewArticle(q)
  BY <1>1 DEF Holds, Editable, Sent
<1> HIDE DEF q, d
<1>7. \A e \in Digest : e # d => Filed(e)' = Filed(e) /\ f \notin Filed(e)
  BY <1>4 DEF Filed, Filing, Removed
<1>8. \A e \in Digest : Sent(e)' = Sent(e)
  BY <1>1 DEF Sent
<1>9. RowOK' /\ DeliveredIffSent' /\ AckNotifiesAuthor'
  BY <1>1, <1>8 DEF SInv, RowOK, DeliveredIffSent, AckNotifiesAuthor
<1>10. RequestOK'
  BY <1>1 DEF SInv, RequestOK, Editing, Stage
<1>11. LockOK' /\ LockExclusive'
  <2>1. \A s \in Request : Stage(s)' = "locked" =>
          s # r /\ req'[s] = req[s] /\ Stage(s) = "locked" /\ req[s].digest # d
    BY <1>1 DEF Stage, SInv, LockExclusive, q, d
  <2>2. ASSUME NEW s \in Request, Stage(s)' = "locked"  PROVE Holds(req[s])'
    <3>1. PICK e \in Digest : req'[s] = req[s] /\ Holds(req[s]) /\ e = req[s].digest /\ e # d
      BY <2>1, <2>2, RequestFields DEF SInv, LockOK
    <3>2. Filed(e)' = Filed(e) /\ f \notin Filed(e)
      BY <3>1, <1>7
    <3>3. \A g \in Filed(e) : news'[g] = news[g]
      BY <3>2, <1>4 DEF Filed
    <3> QED
      BY <3>1, <3>2, <3>3, <1>1 DEF Holds, Editable, NewArticle, Repeated, Sendable, Filed
  <2> QED
    BY <2>1, <2>2 DEF LockOK, LockExclusive, SInv
<1>12. DigestComplete'
  BY <1>1, <1>5, <1>7, <1>8 DEF SInv, DigestComplete
<1>13. ArticleOnce'
  <2> SUFFICES ASSUME NEW e \in Digest, NEW g \in Filed(e)', NEW h \in Filed(e)',
                      news'[g].url = news'[h].url, news'[g].url \in Article
               PROVE  g = h
    BY DEF ArticleOnce
  <2>1. g \in Flag /\ h \in Flag
    BY DEF Filed
  <2>2. CASE e # d
    BY <2>1, <2>2, <1>4, <1>7 DEF SInv, ArticleOnce
  <2>3. CASE e = d
    <3>1. \A k \in Filed(e)' : k # f => k \in Filed(d) /\ news'[k] = news[k]
      BY <2>3, <1>4 DEF Filed
    <3>2. CASE g # f /\ h # f
      <4>1. g \in Filed(d) /\ h \in Filed(d) /\ news[g].url = news[h].url /\ news[g].url \in Article
        BY <3>1, <3>2
      <4> QED
        BY <4>1, <1>1 DEF SInv, ArticleOnce, q, d
    <3>3. \A k \in Filed(d) \ {f} :
            f \in Filed(e)' /\ news[k].url = news'[f].url => news'[f].url \notin Article
      <4> SUFFICES ASSUME NEW k \in Filed(d) \ {f}, f \in Filed(e)', news[k].url = news'[f].url,
                          news'[f].url \in Article
                   PROVE  FALSE
        OBVIOUS
      <4>1. q.op \in {"create", "update"} /\ news'[f].url = q.url
        BY <1>4 DEF Filed, Removed, Filing
      <4>2. k # q.flag
        BY <4>1, <1>3, <1>4 DEF Filed
      <4>3. Repeated(d, q.flag, q.url)
        BY <4>1, <4>2 DEF Repeated
      <4> QED
        BY <4>1, <4>3, <1>5 DEF NewArticle, d
    <3> QED
      BY <3>1, <3>2, <3>3
  <2> QED
    BY <2>2, <2>3
<1> QED
  BY <1>9, <1>10, <1>11, <1>12, <1>13 DEF SInv

(* ... sending a digest, ...                                                *)
LEMMA SubmitStep ==
  ASSUME SInv, TypeOK', NEW r \in Request, Submit(r)
  PROVE  SInv'
<1> DEFINE q == req[r]
           d == q.digest
<1>1. /\ Stage(r) = "locked" /\ q \in Edit /\ d \in Digest /\ Holds(q) /\ q.op = "submit"
      /\ Stage(r)' = "idle"
      /\ \A s \in Request \ {r} : req'[s] = req[s]
      /\ UNCHANGED <<news, read>>
  BY RequestFields DEF Submit, Commit, SInv, TypeOK, LockOK, Stage, Idle, Editing
<1>2. /\ sub[d].status = "draft" /\ ~Sent(d)
      /\ q.items = Filed(d) /\ Filed(d) # {} /\ q.recipients # {}
  BY <1>1 DEF Holds, Editable, Sendable, Sent
<1>3. /\ sub'[d] = [status |-> "submitted", ackedBy |-> NoUser, items |-> q.items]
      /\ \A e \in Digest \ {d} : sub'[e] = sub[e]
      /\ inbox' = inbox \cup Deliveries(d, q.recipients)
  BY <1>1 DEF Submit, SInv, TypeOK
<1>4. /\ \A m \in Deliveries(d, q.recipients) : m.digest = d /\ m.kind = "submission"
      /\ \E m \in Deliveries(d, q.recipients) : TRUE
  <2>1. PICK u : u \in q.recipients
    BY <1>2
  <2>2. [digest |-> d, to |-> u, kind |-> "submission", by |-> d.user] \in Deliveries(d, q.recipients)
    BY <2>1 DEF Deliveries
  <2> QED
    BY <2>2 DEF Deliveries
<1> HIDE DEF q, d
<1>5. \A e \in Digest : Filed(e)' = Filed(e)
  BY <1>1 DEF Filed
<1>6. \A e \in Digest : Sent(e)' <=> e = d \/ Sent(e)
  BY <1>3 DEF Sent
<1>7. RowOK'
  BY <1>3 DEF SInv, RowOK
<1>8. RequestOK'
  <2>1. \A e \in Digest : sub[e].status # "absent" => sub'[e].status # "absent"
    BY <1>3
  <2> QED
    BY <2>1, <1>1, RequestFields DEF SInv, RequestOK, Editing, Stage
<1>9. LockOK' /\ LockExclusive'
  <2>1. \A s \in Request : Stage(s)' = "locked" =>
          s # r /\ req'[s] = req[s] /\ Stage(s) = "locked" /\ req[s].digest # d
    BY <1>1 DEF Stage, SInv, LockExclusive, q, d
  <2>2. ASSUME NEW s \in Request, Stage(s)' = "locked"  PROVE Holds(req[s])'
    <3>1. req'[s] = req[s] /\ Holds(req[s]) /\ req[s].digest \in Digest \ {d}
      BY <2>1, <2>2, RequestFields DEF SInv, LockOK
    <3> QED
      BY <3>1, <1>1, <1>3 DEF Holds, Editable, NewArticle, Repeated, Sendable, Filed
  <2> QED
    BY <2>1, <2>2 DEF LockOK, LockExclusive, SInv
<1>10. DigestComplete'
  BY <1>2, <1>3, <1>5, <1>6 DEF SInv, DigestComplete
<1>11. DeliveredIffSent'
  BY <1>1, <1>3, <1>4, <1>6 DEF SInv, DeliveredIffSent
<1>12. ArticleOnce'
  BY <1>1, <1>5 DEF SInv, ArticleOnce
<1>13. AckNotifiesAuthor'
  <2> SUFFICES ASSUME NEW e \in Digest
               PROVE  /\ {m \in inbox' : m.digest = e /\ m.kind = "ack"}
                            = IF sub'[e].status = "acked" THEN {Notice(e, sub'[e].ackedBy)} ELSE {}
                      /\ \A m \in inbox' : m.digest = e /\ m.to = sub'[e].ackedBy => m \in read'
    BY DEF AckNotifiesAuthor
  <2>1. {m \in inbox' : m.digest = e /\ m.kind = "ack"}
           = {m \in inbox : m.digest = e /\ m.kind = "ack"}
    BY <1>3, <1>4
  <2>2. CASE e # d
    BY <2>1, <2>2, <1>1, <1>3, <1>4 DEF SInv, AckNotifiesAuthor
  <2>3. CASE e = d
    <3>1. \A m \in inbox' : m.to # NoUser
      BY Nulls DEF TypeOK, Message
    <3> QED
      BY <3>1, <2>1, <2>3, <1>2, <1>3 DEF SInv, AckNotifiesAuthor
  <2> QED
    BY <2>2, <2>3
<1> QED
  BY <1>7, <1>8, <1>9, <1>10, <1>11, <1>12, <1>13 DEF SInv

(* ... and its acknowledgement.                                             *)
LEMMA AcknowledgeStep ==
  ASSUME SInv, TypeOK', NEW r \in Request, Acknowledge(r)
  PROVE  SInv'
<1> DEFINE d == req[r].digest
           u == req[r].user
<1>1. /\ req[r] \in Review /\ d \in Digest /\ u \in User \ {d.user}
      /\ Stage(r)' = "idle"
      /\ \A s \in Request \ {r} : req'[s] = req[s]
      /\ UNCHANGED news
      /\ read \subseteq read'
  BY RequestFields DEF Acknowledge, SInv, TypeOK, RequestOK, Stage, Idle, Review
<1>2. CASE UNCHANGED <<sub, inbox>>
  BY <1>1, <1>2, QuietStep DEF Acknowledge, SInv, TypeOK
<1>3. CASE ~UNCHANGED <<sub, inbox>>
  <2>1. /\ sub[d].status = "submitted"
        /\ sub' = [sub EXCEPT ![d].status = "acked", ![d].ackedBy = u]
        /\ inbox' = inbox \cup {Notice(d, u)}
        /\ read' = read \cup {m \in inbox : m.digest = d /\ m.to = u}
        /\ \A s \in Request : Stage(s) = "locked" => req[s].digest # d
    BY <1>3 DEF Acknowledge, Unanswered, LockFree
  <2>2. /\ sub'[d].status = "acked" /\ sub'[d].ackedBy = u /\ sub'[d].items = sub[d].items
        /\ \A e \in Digest \ {d} : sub'[e] = sub[e]
    BY <2>1, <1>1 DEF SInv, TypeOK, Row
  <2>3. Notice(d, u).digest = d /\ Notice(d, u).to = d.user /\ Notice(d, u).kind = "ack"
    BY DEF Notice
  <2> HIDE DEF d, u
  <2>5. \A e \in Digest : Filed(e)' = Filed(e) /\ Sent(e)' = Sent(e)
    <3>1. \A e \in Digest : Filed(e)' = Filed(e)
      BY <1>1 DEF Filed
    <3>2. \A e \in Digest : Sent(e)' = Sent(e)
      <4>1. sub[d].status = "submitted" /\ sub'[d].status = "acked"
        BY <2>1, <2>2
      <4> QED
        BY <4>1, <2>2 DEF Sent
    <3> QED
      BY <3>1, <3>2
  <2>6. RowOK'
    BY <1>1, <2>2 DEF SInv, RowOK
  <2>7. RequestOK'
    <3>1. \A e \in Digest : sub[e].status # "absent" => sub'[e].status # "absent"
      BY <2>2
    <3> QED
      BY <3>1, <1>1, RequestFields DEF SInv, RequestOK, Editing, Stage
  <2>8. LockOK' /\ LockExclusive'
    <3>1. \A s \in Request : Stage(s)' = "locked" =>
            s # r /\ req'[s] = req[s] /\ Stage(s) = "locked" /\ req[s].digest # d
      BY <1>1, <2>1 DEF Stage
    <3>2. ASSUME NEW s \in Request, Stage(s)' = "locked"  PROVE Holds(req[s])'
      <4>1. req'[s] = req[s] /\ Holds(req[s]) /\ req[s].digest \in Digest \ {d}
        BY <3>1, <3>2, RequestFields DEF SInv, LockOK
      <4> QED
        BY <4>1, <1>1, <2>2 DEF Holds, Editable, NewArticle, Repeated, Sendable, Filed
    <3> QED
      BY <3>1, <3>2 DEF LockOK, LockExclusive, SInv
  <2>9. DigestComplete' /\ ArticleOnce'
    BY <1>1, <2>2, <2>5 DEF SInv, DigestComplete, ArticleOnce
  <2>10. DeliveredIffSent'
    BY <2>1, <2>3, <2>5 DEF SInv, DeliveredIffSent
  <2>11. AckNotifiesAuthor'
    <3> SUFFICES ASSUME NEW e \in Digest
                 PROVE  /\ {m \in inbox' : m.digest = e /\ m.kind = "ack"}
                              = IF sub'[e].status = "acked" THEN {Notice(e, sub'[e].ackedBy)} ELSE {}
                        /\ \A m \in inbox' : m.digest = e /\ m.to = sub'[e].ackedBy => m \in read'
      BY DEF AckNotifiesAuthor
    <3>1. CASE e # d
      <4>1. \A m \in inbox' : m.digest = e => m \in inbox
        BY <3>1, <2>1, <2>3
      <4>2. {m \in inbox' : m.digest = e /\ m.kind = "ack"}
               = {m \in inbox : m.digest = e /\ m.kind = "ack"}
        BY <4>1, <2>1
      <4>3. sub'[e] = sub[e]
        BY <3>1, <2>2
      <4> QED
        BY <4>1, <4>2, <4>3, <1>1 DEF SInv, AckNotifiesAuthor
    <3>2. CASE e = d
      <4>1. {m \in inbox : m.digest = d /\ m.kind = "ack"} = {}
        BY <1>1, <2>1 DEF SInv, AckNotifiesAuthor
      <4>2. {m \in inbox' : m.digest = d /\ m.kind = "ack"} = {Notice(d, u)}
        BY <4>1, <2>1, <2>3
      <4>3. \A m \in inbox' : m.digest = d /\ m.to = u => m \in read'
        BY <1>1, <2>1, <2>3
      <4> QED
        BY <3>2, <4>2, <4>3, <2>2
    <3> QED
      BY <3>1, <3>2
  <2> QED
    BY <2>6, <2>7, <2>8, <2>9, <2>10, <2>11 DEF SInv
<1> QED
  BY <1>2, <1>3

(* Every step keeps the invariant. *)
LEMMA SafeStep == SInv /\ [Next]_vars => SInv'
<1> SUFFICES ASSUME SInv, [Next]_vars  PROVE SInv'
  OBVIOUS
<1> USE DEF SInv
<1>1. TypeOK'
  BY TypeStep
<1>2. ASSUME NEW r \in Request, BeginEdit(r)  PROVE SInv'
  BY <1>1, <1>2, Beginnings, BeginStep
<1>3. ASSUME NEW r \in Request, Decline(r) \/ Fail(r)  PROVE SInv'
  BY <1>1, <1>3, QuietStep DEF Decline, Fail, TypeOK
<1>4. CASE ReadMessage \/ NextWeek \/ Reassign \/ UNCHANGED vars
  BY <1>1, <1>4, QuietStep DEF ReadMessage, NextWeek, Reassign, vars
<1> QED
  BY <1>1, <1>2, <1>3, <1>4, LockStep, ItemStep, SubmitStep, BeginReviewStep, AcknowledgeStep
     DEF Next, BeginEdit

-----------------------------------------------------------------------------
(* In every reachable state no two requests hold the lock of one draft, and *)
(* what a request checked under the lock still holds when it writes.        *)
THEOREM Invariance == Spec => []SInv
  BY SafeInit, SafeStep, PTL DEF Spec

(* A sent digest holds every item filed under it, and at least one,         *)
(* whatever was filed, edited or removed while it was being sent.           *)
THEOREM Complete == Spec => []DigestComplete
<1>1. SInv => DigestComplete
  BY DEF SInv
<1> QED
  BY <1>1, Invariance, PTL

(* A digest is in somebody's inbox exactly when it has been sent.           *)
THEOREM Delivered == Spec => []DeliveredIffSent
<1>1. SInv => DeliveredIffSent
  BY DEF SInv
<1> QED
  BY <1>1, Invariance, PTL

(* No digest holds an article twice, however many requests file it at once. *)
THEOREM Once == Spec => []ArticleOnce
<1>1. SInv => ArticleOnce
  BY DEF SInv
<1> QED
  BY <1>1, Invariance, PTL

(* An acknowledgement notifies the author once, and leaves no message of    *)
(* the digest unread by the reviewer.                                       *)
THEOREM Acknowledged == Spec => []AckNotifiesAuthor
<1>1. SInv => AckNotifiesAuthor
  BY DEF SInv
<1> QED
  BY <1>1, Invariance, PTL

-----------------------------------------------------------------------------
(* The refinement of WeeklyDigest, step by step.  What it sees of a digest. *)
State(d) == CASE sub[d].status = "submitted" -> "sent"
              [] sub[d].status = "acked" -> "acked"
              [] OTHER -> "open"

(* The mapped initial state is one of WeeklyDigest. *)
LEMMA RefinesInit == Init => Weekly!DInit
<1> SUFFICES ASSUME Init  PROVE Weekly!DInit
  OBVIOUS
<1>1. \A d \in Digest : sub[d] = NoSub /\ Filed(d) = {}
  BY DEF Init, Filed, Unused
<1>2. \A d \in Digest : State(d) = "open"
  BY <1>1 DEF State, NoSub
<1>3. \A d \in Digest : Contents(d) = {}
  BY <1>1 DEF Contents, Sent, NoSub
<1>4. \A d \in Digest : sub[d].ackedBy = NoUser
  BY <1>1 DEF NoSub
<1> QED
  BY <1>2, <1>3, <1>4 DEF Weekly!DInit, State

(* Steps that leave the items, and of the table all but the drafts, alone.  *)
LEMMA RefinesQuietly ==
  ASSUME UNCHANGED news,
         \A d \in Digest :
            /\ State(d)' = State(d)
            /\ sub'[d].items = sub[d].items /\ sub'[d].ackedBy = sub[d].ackedBy
  PROVE  UNCHANGED Weekly!dvars
<1>1. \A d \in Digest : Sent(d)' = Sent(d)
  BY DEF State, Sent
<1>2. \A d \in Digest : Contents(d)' = Contents(d)
  BY <1>1 DEF Contents, Filed
<1> QED
  BY <1>2 DEF Weekly!dvars, State

(* Beginning an edit is a stutter of the digest, ... *)
LEMMA RefinesBegin ==
  ASSUME TypeOK, NEW r \in Request, BeginEdit(r)
  PROVE  UNCHANGED Weekly!dvars
<1>1. PICK d \in Digest :
        /\ UNCHANGED news
        /\ sub' = [sub EXCEPT ![d].status = IF @ = "absent" THEN "draft" ELSE @]
  BY Beginnings DEF Begin
<1>2. \A e \in Digest :
        /\ State(e)' = State(e)
        /\ sub'[e].items = sub[e].items /\ sub'[e].ackedBy = sub[e].ackedBy
  BY <1>1 DEF State, TypeOK, Row
<1> QED
  BY <1>1, <1>2, RefinesQuietly

(* ... a change of the articles is its Edit, ... *)
LEMMA RefinesEdit ==
  ASSUME SInv, NEW r \in Request, Create(r) \/ Update(r) \/ Delete(r)
  PROVE  \E d \in Digest : Weekly!Edit(d)
<1>1. PICK d \in Digest :
        d = req[r].digest /\ sub[d].status = "draft" /\ sub' = sub
  BY ItemWritten DEF Create, Update, Delete, Holds, Editable
<1>2. \A e \in Digest : State(e)' = State(e) /\ Sent(e)' = Sent(e)
  BY <1>1 DEF State, Sent
<1>3. \A e \in Digest \ {d} : Filed(e)' = Filed(e) /\ \A f \in Filed(e) : news'[f] = news[f]
  <2>1. PICK f \in Flag :
          /\ news[f].state = "unused" \/ f \in Filed(d)
          /\ \A g \in Flag \ {f} : news'[g] = news[g]
          /\ news'[f] = Filing(d, req[r].url) \/ news'[f] = Removed
    BY <1>1, ItemWritten
  <2> QED
    BY <2>1 DEF Filed, Filing, Removed
<1>4. \A e \in Digest \ {d} : ~Sent(e) => Contents(e)' = Contents(e)
  BY <1>2, <1>3 DEF Contents
<1>5. \A e \in Digest \ {d} : Sent(e) => Contents(e)' = Contents(e)
  BY <1>1, <1>2, <1>3 DEF Contents, SInv, DigestComplete
<1>6. State(d) = "open"
  BY <1>1 DEF State
<1> QED
  BY <1>1, <1>2, <1>4, <1>5, <1>6 DEF Weekly!Edit, State

(* ... a submission its Send ... *)
LEMMA RefinesSend ==
  ASSUME SInv, NEW r \in Request, Submit(r)
  PROVE  \E d \in Digest : Weekly!Send(d)
<1>1. PICK d \in Digest :
        /\ sub[d].status = "draft" /\ sub[d].ackedBy = NoUser
        /\ sub'[d] = [status |-> "submitted", ackedBy |-> NoUser, items |-> Filed(d)]
        /\ \A e \in Digest \ {d} : sub'[e] = sub[e]
        /\ Filed(d) # {} /\ news' = news
  BY RequestFields DEF Submit, Commit, SInv, TypeOK, LockOK, Holds, Editable, Sendable, RowOK
<1>2. \A e \in Digest : Filed(e)' = Filed(e)
  BY <1>1 DEF Filed
<1>3. \A e \in Digest : Contents(e)' = Contents(e)
  BY <1>1, <1>2 DEF Contents, Sent
<1>4. Contents(d) # {}
  BY <1>1 DEF Contents, Sent
<1>5. State(d) = "open" /\ State(d)' = "sent" /\ \A e \in Digest \ {d} : State(e)' = State(e)
  BY <1>1 DEF State
<1>6. \A e \in Digest : sub'[e].ackedBy = sub[e].ackedBy
  BY <1>1
<1> QED
  <2>1. Weekly!Send(d)
    BY <1>3, <1>4, <1>5, <1>6 DEF Weekly!Send, State
  <2> QED
    BY <2>1

(* ... and an acknowledgement its Acknowledge, unless it comes again. *)
LEMMA RefinesAcknowledge ==
  ASSUME SInv, NEW r \in Request, Acknowledge(r)
  PROVE  UNCHANGED Weekly!dvars \/ \E d \in Digest, u \in User : Weekly!Acknowledge(d, u)
<1>1. news' = news
  BY DEF Acknowledge
<1>2. CASE sub' = sub
  BY <1>1, <1>2, RefinesQuietly DEF State
<1>3. CASE sub' # sub
  <2>1. PICK d \in Digest, u \in User :
          /\ u # d.user /\ sub[d].status = "submitted"
          /\ sub' = [sub EXCEPT ![d].status = "acked", ![d].ackedBy = u]
    <3>1. req[r] \in Review /\ req[r].user # req[r].digest.user
      BY RequestFields DEF Acknowledge, SInv, RequestOK
    <3> QED
      BY <1>3, <3>1 DEF Acknowledge, Unanswered, Review
  <2>2. /\ sub'[d].status = "acked" /\ sub'[d].ackedBy = u /\ sub'[d].items = sub[d].items
        /\ \A e \in Digest \ {d} : sub'[e] = sub[e]
    BY <2>1 DEF SInv, TypeOK, Row
  <2>3. sub[d].status = "submitted" /\ u # d.user
    BY <2>1
  <2>4. \A e \in Digest : Contents(e)' = Contents(e)
    BY <1>1, <2>2, <2>3 DEF Contents, Sent, Filed
  <2>5. State(d) = "sent" /\ State(d)' = "acked" /\ \A e \in Digest \ {d} : State(e)' = State(e)
    BY <2>2, <2>3 DEF State
  <2>6. Weekly!Acknowledge(d, u)
    BY <2>2, <2>3, <2>4, <2>5 DEF Weekly!Acknowledge, State
  <2> QED
    BY <2>6
<1> QED
  BY <1>2, <1>3

(* So every step is a step of WeeklyDigest or a stutter. *)
LEMMA RefinesStep == SInv /\ [Next]_vars => [Weekly!DNext]_(Weekly!dvars)
<1> SUFFICES ASSUME SInv, [Next]_vars  PROVE UNCHANGED Weekly!dvars \/ Weekly!DNext
  OBVIOUS
<1>1. ASSUME NEW r \in Request, BeginEdit(r)  PROVE UNCHANGED Weekly!dvars
  BY <1>1, RefinesBegin DEF SInv
<1>2. CASE UNCHANGED <<sub, news>>
  BY <1>2, RefinesQuietly DEF State
<1>3. \/ \E r \in Request :
           \/ BeginEdit(r) \/ Create(r) \/ Update(r) \/ Delete(r) \/ Submit(r) \/ Acknowledge(r)
      \/ UNCHANGED <<sub, news>>
  BY DEF Next, BeginEdit, Lock, Decline, BeginReview, Fail, ReadMessage, NextWeek, Reassign, vars
<1> QED
  BY <1>1, <1>2, <1>3, RefinesEdit, RefinesSend, RefinesAcknowledge DEF Weekly!DNext

(* Submissions implements WeeklyDigest: an item is changed only while its   *)
(* digest is open, a digest is sent once, as it was when it was checked,    *)
(* and is acknowledged once, by somebody other than its author.             *)
THEOREM Refinement == Spec => WeeklySpec
  BY RefinesInit, RefinesStep, Invariance, PTL DEF Spec, WeeklySpec, Weekly!DSpec
=============================================================================
