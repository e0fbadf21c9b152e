----------------------------- MODULE NoteStore ------------------------------
(***************************************************************************)
(* What the note service promises its clients while notes keep their       *)
(* titles.  A note is there with one content, or it is not there.  Every   *)
(* request takes effect in one step between its call and its answer, and   *)
(* the answer is true of the store in that step; a request that fails has  *)
(* no effect, or all of it.  A list is put together note by note.          *)
(* NoteService implements this with a row, a file and a path lock.         *)
(***************************************************************************)
CONSTANTS Clients,      \* who makes one request after the other
          Ids,          \* the UUIDs of notes
          Contents,     \* what a note can hold
          None          \* no note, no request, no answer

VARIABLES notes,        \* the content of every note, or None
          stage,        \* how far the request of a client is
          ask,          \* the request
          todo,         \* ids that a list has still to look at
          listed,       \* ids that it has found
          reply         \* the answer, or None

vars == <<notes, stage, ask, todo, listed, reply>>

Request(op, id, content) == [op |-> op, id |-> id, content |-> content]
NoRequest == Request("none", None, None)

Requests ==
    {Request(op, id, c) : op \in {"create", "update"}, id \in Ids, c \in Contents}
    \cup {Request(op, id, None) : op \in {"delete", "get"}, id \in Ids}
    \cup {Request("list", None, None)}

Existing == {id \in Ids : notes[id] # None}

Init ==
    /\ notes = [id \in Ids |-> None]
    /\ stage = [c \in Clients |-> "idle"]
    /\ ask = [c \in Clients |-> NoRequest]
    /\ todo = [c \in Clients |-> {}]
    /\ listed = [c \in Clients |-> {}]
    /\ reply = [c \in Clients |-> None]

Asks(c, op, when) == stage[c] = when /\ ask[c].op = op

Enter(c, next) == stage' = [stage EXCEPT ![c] = next]

Answer(c, outcome) ==
    /\ Enter(c, "answered")
    /\ reply' = [reply EXCEPT ![c] = outcome]

Store(id, content) == notes' = [notes EXCEPT ![id] = content]

Call(c) ==
    /\ stage[c] = "idle"
    /\ \E r \in Requests : ask' = [ask EXCEPT ![c] = r]
    /\ Enter(c, "called")
    /\ UNCHANGED <<notes, todo, listed, reply>>

Refuse(c) ==
    /\ stage[c] = "idle"
    /\ Answer(c, "invalid")
    /\ UNCHANGED <<notes, ask, todo, listed>>

\* A note is there from the moment its creation succeeds.
Create(c) ==
    /\ Asks(c, "create", "called")
    /\ notes[ask[c].id] = None
    /\ Store(ask[c].id, ask[c].content)
    /\ Answer(c, "ok")
    /\ UNCHANGED <<ask, todo, listed>>

Update(c) ==
    /\ Asks(c, "update", "called")
    /\ notes[ask[c].id] # None
    /\ Store(ask[c].id, ask[c].content)
    /\ Enter(c, "applied")
    /\ UNCHANGED <<ask, todo, listed, reply>>

Delete(c) ==
    /\ Asks(c, "delete", "called")
    /\ Store(ask[c].id, None)
    /\ Enter(c, "applied")
    /\ UNCHANGED <<ask, todo, listed, reply>>

Confirm(c) ==
    /\ stage[c] = "applied"
    /\ Answer(c, "ok")
    /\ UNCHANGED <<notes, ask, todo, listed>>

Get(c) ==
    /\ Asks(c, "get", "called")
    /\ notes[ask[c].id] # None
    /\ Answer(c, "ok")
    /\ UNCHANGED <<notes, ask, todo, listed>>

\* The second of two deletions of a note may learn that it is gone.
Miss(c) ==
    /\ \/ \E op \in {"update", "delete", "get"} : Asks(c, op, "called")
       \/ Asks(c, "delete", "applied")
    /\ notes[ask[c].id] = None
    /\ Answer(c, "notfound")
    /\ UNCHANGED <<notes, ask, todo, listed>>

Fail(c) ==
    /\ stage[c] \in {"called", "applied", "listing"}
    /\ Answer(c, "internal")
    /\ UNCHANGED <<notes, ask, todo, listed>>

\* A list looks at every note that is there when it begins.
StartList(c) ==
    /\ Asks(c, "list", "called")
    /\ \E ids \in SUBSET Ids : Existing \subseteq ids /\ todo' = [todo EXCEPT ![c] = ids]
    /\ Enter(c, "listing")
    /\ UNCHANGED <<notes, ask, listed, reply>>

Look(c) ==
    /\ stage[c] = "listing"
    /\ \E id \in todo[c] :
          /\ todo' = [todo EXCEPT ![c] = @ \ {id}]
          /\ listed' = [listed EXCEPT ![c] = IF notes[id] = None THEN @ ELSE @ \cup {id}]
    /\ UNCHANGED <<notes, stage, ask, reply>>

FinishList(c) ==
    /\ stage[c] = "listing" /\ todo[c] = {}
    /\ Answer(c, "ok")
    /\ UNCHANGED <<notes, ask, todo, listed>>

Done(c) ==
    /\ stage[c] = "answered"
    /\ Enter(c, "idle")
    /\ ask' = [ask EXCEPT ![c] = NoRequest]
    /\ todo' = [todo EXCEPT ![c] = {}]
    /\ listed' = [listed EXCEPT ![c] = {}]
    /\ reply' = [reply EXCEPT ![c] = None]
    /\ UNCHANGED notes

\* The server dies: requests go unanswered, notes stay as they are.
Crash ==
    /\ stage' = [c \in Clients |-> "idle"]
    /\ ask' = [c \in Clients |-> NoRequest]
    /\ todo' = [c \in Clients |-> {}]
    /\ listed' = [c \in Clients |-> {}]
    /\ reply' = [c \in Clients |-> None]
    /\ UNCHANGED notes

Next ==
    \/ Crash
    \/ \E c \in Clients :
          \/ Call(c) \/ Refuse(c) \/ Create(c) \/ Update(c) \/ Delete(c) \/ Confirm(c)
          \/ Get(c) \/ Miss(c) \/ Fail(c) \/ StartList(c) \/ Look(c) \/ FinishList(c)
          \/ Done(c)

Spec == Init /\ [][Next]_vars
=============================================================================
