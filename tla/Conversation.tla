---------------------------- MODULE Conversation ----------------------------
(***************************************************************************)
(* A conversation with the mentor                                          *)
(* (src/Backend/src/services/mentorChat.service.js): startConversation,    *)
(* sendMessage, updateConversation and deleteConversation.                 *)
(*                                                                         *)
(* A send checks the conversation and reads its history first.  Its        *)
(* transaction then inserts the question, has it answered, inserts the     *)
(* answer and updates the conversation.  The insert of a message takes a   *)
(* shared lock on the conversation, for its foreign key, and every update  *)
(* or deletion of the conversation an exclusive one; locks are granted in  *)
(* order and kept to the end of the transaction.  Two sends that overlap   *)
(* wait for each other and the database rolls one of them back.            *)
(*                                                                         *)
(* Texts and titles are left out.  Messages are ordered by their ids, that *)
(* is by their insertion, which created_at gives up to a second.           *)
(***************************************************************************)
EXTENDS Requests, FiniteSets, SequencesExt

CONSTANT HistoryLimit   \* messages a send reads, 20 in the code

ASSUME HistoryLimitAssumption == HistoryLimit \in Nat

VARIABLES
  conversation,   \* the mentor_conversations row: none, open, archived or deleted
  messages,       \* its mentor_messages rows, those of open transactions included
  inserted,       \* the last id given to a message, of rows that are gone too
  queue,          \* requests that wait for the exclusive lock, first come first
  talk            \* talk[r]: operation, position and history of request r, and
                  \* (history variable) the messages that were there when it began

conversationVars == <<conversation, messages, inserted, queue, talk>>

Changes == {"rename", "archive", "restore", "delete"}

\* There is no conversation yet, or one without a message.
ConversationInit ==
  /\ conversation \in {"none", "open"}
  /\ messages = {}
  /\ inserted = 0
  /\ queue = <<>>
  /\ talk = [r \in Request |-> [op |-> "none", at |-> "idle", heard |-> {}, before |-> {}]]

TalkAt(r, at) == talk[r].at = at
TalkTo(r, at) == talk' = [talk EXCEPT ![r].at = at]

\* Requests whose transaction has inserted a message.
Sharers == {r \in Request : talk[r].at \in {"answer", "save"}}

\* What everybody may read: the messages of transactions that have ended.
Said == {m \in messages : m.by \notin Sharers}

\* The first messages of a history, as many as a send reads.
FirstOf(history) ==
  {m \in history : Cardinality({o \in history : o.id < m.id}) < HistoryLimit}

Asked(r, id) == [id |-> id, by |-> r, sender |-> "user"]
Answered(r, id) == [id |-> id, by |-> r, sender |-> "mentor"]

\* A transaction without an effect anybody else sees before its end.
StartConversation(r) ==
  /\ TalkAt(r, "idle")
  /\ conversation = "none"
  /\ conversation' = "open"
  /\ \/ UNCHANGED <<messages, inserted>>
     \/ messages' = {Asked(r, 1), Answered(r, 2)} /\ inserted' = 2
  /\ talk' = [talk EXCEPT ![r].op = "start", ![r].at = "ok"]
  /\ UNCHANGED <<queue, faults>>

\* sendMessage finds the conversation ...
LoadForSend(r) ==
  /\ TalkAt(r, "idle")
  /\ conversation # "none"
  /\ talk' = [talk EXCEPT ![r].op = "send", ![r].before = Said,
                          ![r].at = IF conversation = "open" THEN "read" ELSE "refused"]
  /\ UNCHANGED <<conversation, messages, inserted, queue, faults>>

\* ... reads the first messages of its history ...
ReadHistory(r) ==
  /\ TalkAt(r, "read")
  /\ talk' = [talk EXCEPT ![r].at = "ask", ![r].heard = FirstOf(Said)]
  /\ UNCHANGED <<conversation, messages, inserted, queue, faults>>

Insert(m) ==
  /\ messages' = messages \cup {m}
  /\ inserted' = m.id

\* ... stores the question, which its foreign key refuses after a deletion ...
Ask(r) ==
  /\ TalkAt(r, "ask")
  /\ queue = <<>>
  /\ IF conversation = "deleted"
     THEN TalkTo(r, "failed") /\ UNCHANGED <<messages, inserted>>
     ELSE TalkTo(r, "answer") /\ Insert(Asked(r, inserted + 1))
  /\ UNCHANGED <<conversation, queue, faults>>

\* ... stores the answer ...
Answer(r) ==
  /\ TalkAt(r, "answer")
  /\ Insert(Answered(r, inserted + 1))
  /\ TalkTo(r, "save")
  /\ UNCHANGED <<conversation, queue, faults>>

-----------------------------------------------------------------------------
(* The lock of the conversation *)

Earlier(r) == {queue[n] : n \in {m \in DOMAIN queue : \A k \in 1..m : queue[k] # r}}

\* Whom an exclusive lock of r has to wait for.
Blockers(r) == (Sharers \ {r}) \cup Earlier(r)

Wants(r) == talk[r].at \in {"save", "write"}

WaitForLock(r) ==
  /\ Wants(r)
  /\ ~Contains(queue, r)
  /\ Blockers(r) # {}
  /\ queue' = Append(queue, r)
  /\ UNCHANGED <<conversation, messages, inserted, talk, faults>>

RollBack(r) ==
  /\ TalkTo(r, "failed")
  /\ messages' = {m \in messages : m.by # r}
  /\ queue' = RemoveFirst(queue, r)
  /\ UNCHANGED <<conversation, inserted>>

\* Two requests wait for each other: the database ends one of them.
BreakDeadlock(r) ==
  /\ Contains(queue, r)
  /\ \E q \in ToSet(queue) \cap Blockers(r) : r \in Blockers(q)
  /\ RollBack(r)
  /\ UNCHANGED faults

\* Mutant: the send does not write the conversation and so locks nobody out.
Save_Unlocked(r) ==
  /\ TalkAt(r, "save")
  /\ TalkTo(r, "ok")
  /\ queue' = RemoveFirst(queue, r)
  /\ UNCHANGED <<conversation, messages, inserted, faults>>

\* ... updates last_message_at and commits.
Save(r) ==
  /\ TalkAt(r, "save")
  /\ Blockers(r) = {}
  /\ TalkTo(r, "ok")
  /\ queue' = RemoveFirst(queue, r)
  /\ UNCHANGED <<conversation, messages, inserted, faults>>

-----------------------------------------------------------------------------
(* updateConversation and deleteConversation *)

\* The change leaves the columns as they are: Sequelize writes nothing.
Idempotent(change) ==
  \/ change = "archive" /\ conversation = "archived"
  \/ change = "restore" /\ conversation = "open"

LoadForChange(r, change) ==
  /\ TalkAt(r, "idle")
  /\ conversation # "none"
  /\ talk' = [talk EXCEPT ![r].op = change,
                          ![r].at = CASE conversation = "deleted" -> "refused"
                                      [] Idempotent(change) -> "ok"
                                      [] OTHER -> "write"]
  /\ UNCHANGED <<conversation, messages, inserted, queue, faults>>

\* One statement, which finds no row when another request has deleted it.
Write(r) ==
  /\ TalkAt(r, "write")
  /\ Blockers(r) = {}
  /\ conversation' = IF conversation = "deleted" THEN "deleted"
                     ELSE CASE talk[r].op = "delete" -> "deleted"
                            [] talk[r].op = "archive" -> "archived"
                            [] talk[r].op = "restore" -> "open"
                            [] talk[r].op = "rename" -> conversation
  /\ messages' = IF talk[r].op = "delete" THEN {} ELSE messages
  /\ queue' = RemoveFirst(queue, r)
  /\ TalkTo(r, "ok")
  /\ UNCHANGED <<inserted, faults>>

\* A call fails, a wait for the lock takes too long or the process dies.
TalkFails(r) ==
  /\ talk[r].at \in {"read", "ask", "answer", "save", "write"}
  /\ Fault
  /\ RollBack(r)

ConversationStep(r) ==
  \/ StartConversation(r)
  \/ LoadForSend(r) \/ ReadHistory(r) \/ Ask(r) \/ Answer(r) \/ Save(r)
  \/ WaitForLock(r) \/ BreakDeadlock(r)
  \/ \E change \in Changes : LoadForChange(r, change)
  \/ Write(r)
  \/ TalkFails(r)

ConversationNext == \E r \in Request : ConversationStep(r)

ConversationSpec ==
  ConversationInit /\ faults = 0 /\ [][ConversationNext]_<<conversationVars, faults>>

-----------------------------------------------------------------------------
(* Properties *)

Message == [id : 1..inserted, by : Request, sender : {"user", "mentor"}]

ConversationTypeOK ==
  /\ conversation \in {"none", "open", "archived", "deleted"}
  /\ inserted \in Nat
  /\ messages \subseteq Message
  /\ queue \in Seq(Request)
  /\ talk \in [Request -> [op : {"none", "start", "send"} \cup Changes,
                           at : {"idle", "read", "ask", "answer", "save", "write",
                                 "ok", "refused", "failed"},
                           heard : SUBSET Message, before : SUBSET Message]]

\* q is a question and a its answer, with none of the messages in S between them.
Exchange(q, a, S) ==
  /\ q.sender = "user" /\ a.sender = "mentor" /\ q.by = a.by /\ q.id < a.id
  /\ \A m \in S : ~(q.id < m.id /\ m.id < a.id)

\* What can be read is a list of questions, each followed by its own answer,
\* although sends overlap, fail and are rolled back.
ExchangesAreWhole ==
  /\ \A m \in Said : \E q, a \in Said : m \in {q, a} /\ Exchange(q, a, Said)
  /\ \A m, o \in messages : m.id = o.id => m = o

\* A send that reported success is in the conversation once, until somebody
\* deletes that; one that reported a failure has left nothing.
AnsweredOnce ==
  \A r \in Request :
    LET mine == {m \in messages : m.by = r} IN
    CASE TalkAt(r, "ok") /\ talk[r].op = "send" ->
           conversation = "deleted" \/ \E q, a \in mine : mine = {q, a} /\ Exchange(q, a, Said)
      [] talk[r].at \in {"refused", "failed"} -> mine = {}
      [] OTHER -> Cardinality(mine) <= 2

\* The mentor has heard a beginning of the conversation, in which nothing is
\* missing that was there when the send began, up to the limit.
HeardFromTheStart ==
  \A r \in Request :
    TalkAt(r, "ok") /\ talk[r].op = "send" /\ conversation # "deleted" =>
      /\ talk[r].heard \subseteq Said
      /\ \A m \in talk[r].heard, o \in Said : o.id < m.id => o \in talk[r].heard
      /\ \A m \in talk[r].heard : m.by # r
      /\ talk[r].before \subseteq talk[r].heard \/ Cardinality(talk[r].heard) = HistoryLimit

\* Overlapping sends, archiving, deletion and rollbacks leave a conversation of
\* whole exchanges, each of which was answered knowing those before it.
ConversationsAreWhole == ExchangesAreWhole /\ AnsweredOnce /\ HeardFromTheStart
=============================================================================
