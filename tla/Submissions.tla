---------------------------- MODULE Submissions ----------------------------
(***************************************************************************)
(* The weekly news digests of api/submissions.py: analysts file news items *)
(* into the draft of their sector and week, send it to the leads of the    *)
(* sector, and a lead or an admin acknowledges it.                         *)
(*                                                                         *)
(* A request reads the organization's directory and the calendar and       *)
(* creates the draft row, waits for the row's lock and reads under it, then *)
(* writes and commits: three steps.  Creating the row early disturbs no     *)
(* other step, so it is part of the first.  The row lock of Postgres is     *)
(* modelled; SQLite's lock covers the whole database and allows fewer       *)
(* interleavings.                                                           *)
(***************************************************************************)
EXTENDS Naturals, FiniteSets

CONSTANTS
    User,
    Sector,
    Covers,     \* Covers[u]: the sectors assigned to analyst u
    Admin,      \* users with the admin role
    Boards,     \* the sets of leads the directory may name for a sector
    Article,    \* links of news articles
    Freeform,   \* the url of an item that is a summary without a link
    Flag,       \* ids of news items; uuid4 never draws the same one twice
    Request,    \* request threads of all server processes
    NoFlag,
    NoUser,
    MaxWeek     \* bound on the calendar

ASSUME CoversAssumption == Covers \in [User -> SUBSET Sector]
ASSUME UsersAssumption == Admin \subseteq User /\ Boards \subseteq SUBSET User
ASSUME NullsAssumption == Freeform \notin Article /\ NoFlag \notin Flag /\ NoUser \notin User
ASSUME WeekAssumption == MaxWeek \in Nat \ {0}

(* UNIQUE (user_id, sector, week_of): the key stands for the submission id. *)
(* analyst_sector() lets an analyst have digests of assigned sectors only.  *)
Digest == {d \in [user : User, sector : Sector, week : 1..MaxWeek] :
             d.sector \in Covers[d.user]}
Link == Article \cup {Freeform}

(* A message and whose request wrote it, which tells two messages of the     *)
(* same kind apart as their ids do.                                         *)
Message == [digest : Digest, to : User, kind : {"submission", "ack"}, by : User]

VARIABLES
    week,     \* the current week
    leads,    \* leads[s]: who the directory names as leads of sector s
    sub,      \* the submissions table and, per row, its submission_items
    news,     \* the news_flags table
    inbox,    \* the inbox_messages table
    read,     \* the messages with a read_at
    req       \* req[r]: the request thread r works on

vars == <<week, leads, sub, news, inbox, read, req>>

NoSub == [status |-> "absent", ackedBy |-> NoUser, items |-> {}]
Unused == [state |-> "unused"]
Removed == [state |-> "removed"]
Filing(d, link) == [state |-> "filed", digest |-> d, url |-> link]
Idle == [stage |-> "idle"]
Stage(r) == req[r].stage

(* The items of a draft, and another item of it with the same link. *)
Filed(d) == {f \in Flag : news[f].state = "filed" /\ news[f].digest = d}
Repeated(d, f, link) ==
    link \in Article /\ \E g \in Filed(d) \ {f} : news[g].url = link

Init ==
    /\ week = 1
    /\ leads \in [Sector -> Boards]
    /\ sub = [d \in Digest |-> NoSub]
    /\ news = [f \in Flag |-> Unused]
    /\ inbox = {}
    /\ read = {}
    /\ req = [r \in Request |-> Idle]

-----------------------------------------------------------------------------
(* The first reads of a request: directory() and week_context(), and for an *)
(* edit or a removal owned_flag().  Their answers may be out of date later. *)
(* locked_draft then inserts the draft row, ON CONFLICT DO NOTHING, and     *)
(* commits.                                                                 *)
Begin(r, op, d, f, link) ==
    /\ Stage(r) = "idle"
    /\ d \in Digest
    /\ sub' = [sub EXCEPT ![d].status = IF @ = "absent" THEN "draft" ELSE @]
    /\ req' = [req EXCEPT ![r] =
                [stage |-> "waiting", op |-> op, digest |-> d, flag |-> f, url |-> link,
                 recipients |-> leads[d.sector], items |-> {}]]
    /\ UNCHANGED <<week, leads, news, inbox, read>>

ThisWeek(u, s) == [user |-> u, sector |-> s, week |-> week]

BeginCreate(r) == \E u \in User, s \in Sector, link \in Link :
    Begin(r, "create", ThisWeek(u, s), NoFlag, link)

BeginSubmit(r) == \E u \in User, s \in Sector :
    Begin(r, "submit", ThisWeek(u, s), NoFlag, Freeform)

BeginUpdate(r) == \E f \in Flag, link \in Link :
    /\ news[f].state = "filed" /\ news[f].digest.week = week
    /\ Begin(r, "update", news[f].digest, f, link)

BeginDelete(r) == \E f \in Flag :
    /\ news[f].state = "filed" /\ news[f].digest.week = week
    /\ Begin(r, "delete", news[f].digest, f, Freeform)

(* SELECT ... FOR UPDATE waits while another request holds the row. *)
LockIgnored(d) == TRUE
LockFree(d) == \A r \in Request : Stage(r) = "locked" => req[r].digest # d

(* What each handler checks under the lock before it writes anything. *)
EditableAlways(d) == TRUE
Editable(d) == sub[d].status = "draft"

NewArticleUnchecked(q) == TRUE
NewArticle(q) == q.op \in {"create", "update"} => ~Repeated(q.digest, q.flag, q.url)

StillOwned(q) ==
    q.op \in {"update", "delete"} => q.flag \in Filed(q.digest) /\ q.digest.week = week

SendableToNobody(q) == q.op = "submit" => Filed(q.digest) # {}
Sendable(q) == q.op = "submit" => Filed(q.digest) # {} /\ q.recipients # {}

Accepts(q) == Editable(q.digest) /\ NewArticle(q) /\ StillOwned(q) /\ Sendable(q)

Lock(r) ==
    /\ Stage(r) = "waiting"
    /\ LockFree(req[r].digest)
    /\ Accepts(req[r])
    /\ req' = [req EXCEPT ![r].stage = "locked", ![r].items = Filed(req[r].digest)]
    /\ UNCHANGED <<week, leads, sub, news, inbox, read>>

(* The handler answers without writing: the digest was sent already, the    *)
(* article is in it already, the item is gone, the week is over, there is   *)
(* nothing to send or nobody to send it to.                                 *)
Decline(r) ==
    /\ Stage(r) = "waiting"
    /\ LockFree(req[r].digest)
    /\ ~Accepts(req[r])
    /\ req' = [req EXCEPT ![r] = Idle]
    /\ UNCHANGED <<week, leads, sub, news, inbox, read>>

(* The end of a transaction that wrote. *)
Commit(r, op) ==
    /\ Stage(r) = "locked"
    /\ req[r].op = op
    /\ req' = [req EXCEPT ![r] = Idle]
    /\ UNCHANGED <<week, leads, read>>

Create(r) ==
    /\ Commit(r, "create")
    /\ \E f \in Flag : news[f].state = "unused"
    /\ LET f == CHOOSE g \in Flag : news[g].state = "unused"
       IN  news' = [news EXCEPT ![f] = Filing(req[r].digest, req[r].url)]
    /\ UNCHANGED <<sub, inbox>>

Update(r) ==
    /\ Commit(r, "update")
    /\ news' = [news EXCEPT ![req[r].flag] = Filing(req[r].digest, req[r].url)]
    /\ UNCHANGED <<sub, inbox>>

Delete(r) ==
    /\ Commit(r, "delete")
    /\ news' = [news EXCEPT ![req[r].flag] = Removed]
    /\ UNCHANGED <<sub, inbox>>

DeliveriesUnlabelled(d, users) == [digest : {d}, to : users, kind : {"draft"}, by : {d.user}]
Deliveries(d, users) == [digest : {d}, to : users, kind : {"submission"}, by : {d.user}]

Submit(r) ==
    /\ Commit(r, "submit")
    /\ sub' = [sub EXCEPT ![req[r].digest] =
                [status |-> "submitted", ackedBy |-> NoUser, items |-> req[r].items]]
    /\ inbox' = inbox \cup Deliveries(req[r].digest, req[r].recipients)
    /\ UNCHANGED news

(* Any call of the handler raises, the wait for the lock times out, or the  *)
(* process dies: the transaction is rolled back.                            *)
Fail(r) ==
    /\ Stage(r) # "idle"
    /\ req' = [req EXCEPT ![r] = Idle]
    /\ UNCHANGED <<week, leads, sub, news, inbox, read>>

-----------------------------------------------------------------------------
(* acknowledge: the caller may review the sector, as the directory said at  *)
(* the start, the digest has been sent, and it is not the caller's own.     *)
MayReviewOwn(u, d) == u \in Admin \cup leads[d.sector]
MayReview(u, d) == u \in Admin \cup leads[d.sector] /\ u # d.user

BeginReview(r) ==
    /\ Stage(r) = "idle"
    /\ \E u \in User, d \in Digest :
        /\ sub[d].status # "absent"
        /\ MayReview(u, d)
        /\ req' = [req EXCEPT ![r] = [stage |-> "reviewing", user |-> u, digest |-> d]]
    /\ UNCHANGED <<week, leads, sub, news, inbox, read>>

(* The condition of the UPDATE, which decides between two reviewers who      *)
(* both read a submitted digest.                                            *)
UnansweredOrNot(d) == sub[d].status \in {"submitted", "acked"}
Unanswered(d) == sub[d].status = "submitted"

Notice(d, u) == [digest |-> d, to |-> d.user, kind |-> "ack", by |-> u]

(* UPDATE ... WHERE status='submitted' waits for the row lock.  Only the    *)
(* first acknowledgement changes the row and notifies the author; every one *)
(* marks the caller's message as read.  A draft is refused, as by Fail.     *)
(* The table's UNIQUE (schema), which would make a second notice fail, is   *)
(* left out: the condition is enough.                                       *)
Acknowledge(r) ==
    LET d == req[r].digest
        u == req[r].user
    IN  /\ Stage(r) = "reviewing"
        /\ LockFree(d)
        /\ \/ /\ Unanswered(d)
              /\ sub' = [sub EXCEPT ![d].status = "acked", ![d].ackedBy = u]
              /\ inbox' = inbox \cup {Notice(d, u)}
           \/ sub[d].status = "acked" /\ UNCHANGED <<sub, inbox>>
        /\ read' = read \cup {m \in inbox : m.digest = d /\ m.to = u}
        /\ req' = [req EXCEPT ![r] = Idle]
        /\ UNCHANGED <<week, leads, news>>

(* read_message keeps the time of the first reading. *)
ReadMessage ==
    /\ \E m \in inbox : read' = read \cup {m}
    /\ UNCHANGED <<week, leads, sub, news, inbox, req>>

-----------------------------------------------------------------------------
(* Monday comes, whatever the requests are doing. *)
NextWeek ==
    /\ week < MaxWeek
    /\ week' = week + 1
    /\ UNCHANGED <<leads, sub, news, inbox, read, req>>

(* An admin edits the sector leadership in the directory. *)
Reassign ==
    /\ \E s \in Sector, us \in Boards : leads' = [leads EXCEPT ![s] = us]
    /\ UNCHANGED <<week, sub, news, inbox, read, req>>

Next ==
    \/ \E r \in Request :
        \/ BeginCreate(r) \/ BeginUpdate(r) \/ BeginDelete(r) \/ BeginSubmit(r)
        \/ Lock(r) \/ Decline(r)
        \/ Create(r) \/ Update(r) \/ Delete(r) \/ Submit(r)
        \/ BeginReview(r) \/ Acknowledge(r)
        \/ Fail(r)
    \/ ReadMessage \/ NextWeek \/ Reassign

Spec == Init /\ [][Next]_vars

-----------------------------------------------------------------------------
Row == [status : {"absent", "draft", "submitted", "acked"},
        ackedBy : User \cup {NoUser}, items : SUBSET Flag]
Item == {Unused, Removed} \cup [state : {"filed"}, digest : Digest, url : Link]
Edit == [stage : {"waiting", "locked"},
         op : {"create", "update", "delete", "submit"}, digest : Digest,
         flag : Flag \cup {NoFlag}, url : Link, recipients : SUBSET User,
         items : SUBSET Flag]
Review == [stage : {"reviewing"}, user : User, digest : Digest]

(* Types of the tables, the calendar and the requests. *)
TypeOK ==
    /\ week \in 1..MaxWeek
    /\ leads \in [Sector -> Boards]
    /\ sub \in [Digest -> Row]
    /\ news \in [Flag -> Item]
    /\ inbox \subseteq Message
    /\ read \subseteq inbox
    /\ req \in [Request -> {Idle} \cup Edit \cup Review]

Sent(d) == sub[d].status \in {"submitted", "acked"}

(* Saving the sent digest, its items and its messages is atomic             *)
(* (SUBMISSIONS.md:20) also against items that are being filed, edited or   *)
(* removed meanwhile: a sent digest holds every item filed under it, at     *)
(* least one, and a draft holds none yet.                                   *)
DigestComplete ==
    \A d \in Digest :
        IF Sent(d) THEN sub[d].items = Filed(d) /\ Filed(d) # {} ELSE sub[d].items = {}

(* A digest is in somebody's inbox exactly when it has been sent, whoever   *)
(* was unassigned while it was on its way (submissions.py:219-227).         *)
DeliveredIffSent ==
    \A d \in Digest :
        Sent(d) <=> \E m \in inbox : m.digest = d /\ m.kind = "submission"

(* However many requests file the same article at once, a digest holds it   *)
(* once (submissions.py:156-159 and 185-190).                               *)
ArticleOnce ==
    \A d \in Digest : \A f, g \in Filed(d) :
        news[f].url = news[g].url /\ news[f].url \in Article => f = g

(* "Acknowledgement sends one inbox notification back to the analyst"       *)
(* (SUBMISSIONS.md:25), however many reviewers acknowledge a digest at      *)
(* once: that of the acknowledgement the row keeps.  It leaves no message   *)
(* of the digest unread by the one who acknowledged it.                     *)
AckNotifiesAuthor ==
    \A d \in Digest :
        /\ {m \in inbox : m.digest = d /\ m.kind = "ack"}
              = IF sub[d].status = "acked" THEN {Notice(d, sub[d].ackedBy)} ELSE {}
        /\ \A m \in inbox : m.digest = d /\ m.to = sub[d].ackedBy => m \in read

(* The abstract specification of a digest. *)
Contents(d) ==
    LET held == IF Sent(d) THEN sub[d].items ELSE Filed(d)
    IN  {<<f, news[f]>> : f \in held}

Weekly == INSTANCE WeeklyDigest WITH
    state <- [d \in Digest |->
                CASE sub[d].status = "submitted" -> "sent"
                  [] sub[d].status = "acked" -> "acked"
                  [] OTHER -> "open"],
    contents <- [d \in Digest |-> Contents(d)],
    reviewer <- [d \in Digest |-> sub[d].ackedBy]

WeeklySpec == Weekly!DSpec

(* "Previous weeks are available read-only" (SUBMISSIONS.md:10): a request  *)
(* that is let through to write under the lock of a draft writes to the     *)
(* draft of the week it then is.                                            *)
PastWeeksReadOnly ==
    [][\A r \in Request :
          Stage(r) = "waiting" /\ Stage(r)' = "locked" => req[r].digest.week = week]_vars
=============================================================================
