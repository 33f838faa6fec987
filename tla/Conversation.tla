---------------------------- MODULE Conversation ----------------------------
(***************************************************************************)
(* The Conversation context: one conversation, its members, and what       *)
(* becomes of their messages (src/conversation/service.ts).                *)
(*                                                                         *)
(* A command is one step, as in Organization.  Any user may be active when *)
(* added.  Of a body only whose words it holds is kept, not which, and     *)
(* there is one reaction to give; titles, topics, roles and reasons are    *)
(* left out.                                                               *)
(***************************************************************************)
EXTENDS Integers

CONSTANTS
  Person, Nobody,  \* users; Nobody: in place of one
  Message,         \* ids
  Redacted,        \* the body "[REDACTED]"
  MaxEdits         \* bound on the edits of a message

ConversationAssumption ==
  /\ Nobody \notin Person /\ Redacted \notin Person \cup {Nobody} /\ MaxEdits \in Nat

NoMessage == [status |-> "ABSENT", author |-> Nobody, body |-> Nobody, editCount |-> 0, reactions |-> {}]

VARIABLE conversation  \* the snapshot of Conversation

TypeOK ==
  conversation \in
    [status: {"ABSENT", "ACTIVE", "ARCHIVED"}, lifecycleEpoch: 0 .. 1,
     creator: Person \cup {Nobody}, members: SUBSET Person,
     messages: [Message -> [status: {"ABSENT", "ACTIVE", "REDACTED"}, author: Person \cup {Nobody},
                            body: Person \cup {Nobody, Redacted}, editCount: 0 .. MaxEdits,
                            reactions: SUBSET Person]]]

Init ==
  conversation = [status |-> "ABSENT", lifecycleEpoch |-> 0, creator |-> Nobody, members |-> {},
                  messages |-> [m \in Message |-> NoMessage]]

-----------------------------------------------------------------------------

\* #load(), and #member() of whoever acts.
Loadable == conversation.status = "ACTIVE"

member(p) == Loadable /\ p \in conversation.members

\* Defect: a message is found whatever became of it.
messageOfAnyStatus(m) == conversation.messages[m].status # "ABSENT"

\* #message(): a redacted one is not found.
message(m) == conversation.messages[m].status = "ACTIVE"

CreateConversation(creator) ==
  /\ conversation.status = "ABSENT"
  /\ conversation' = [conversation EXCEPT !.status = "ACTIVE", !.creator = creator,
                                          !.members = {creator}]

AddMember(p) ==
  /\ Loadable /\ p \notin conversation.members
  /\ conversation' = [conversation EXCEPT !.members = @ \cup {p}]

PostMessage(p, m) ==
  /\ member(p) /\ conversation.messages[m] = NoMessage
  /\ conversation' = [conversation EXCEPT !.messages[m] =
       [NoMessage EXCEPT !.status = "ACTIVE", !.author = p, !.body = p]]

EditMessage(p, m) ==
  /\ member(p) /\ message(m)
  /\ p = conversation.messages[m].author
  /\ conversation.messages[m].editCount < MaxEdits
  /\ conversation' = [conversation EXCEPT !.messages[m] =
       [conversation.messages[m] EXCEPT !.body = p, !.editCount = @ + 1]]

\* By any member.
RedactMessage(p, m) ==
  /\ member(p) /\ message(m)
  /\ conversation' = [conversation EXCEPT !.messages[m] =
       [@ EXCEPT !.status = "REDACTED", !.body = Redacted, !.reactions = {}]]

AddReaction(p, m) ==
  /\ member(p) /\ message(m) /\ p \notin conversation.messages[m].reactions
  /\ conversation' = [conversation EXCEPT !.messages[m].reactions = @ \cup {p}]

RemoveReaction(p, m) ==
  /\ member(p) /\ message(m) /\ p \in conversation.messages[m].reactions
  /\ conversation' = [conversation EXCEPT !.messages[m].reactions = @ \ {p}]

ArchiveConversation ==
  /\ Loadable
  /\ conversation' = [conversation EXCEPT !.status = "ARCHIVED", !.lifecycleEpoch = @ + 1]

Next ==
  \/ \E p \in Person :
       \/ CreateConversation(p) \/ AddMember(p)
       \/ \E m \in Message :
            \/ PostMessage(p, m) \/ EditMessage(p, m) \/ RedactMessage(p, m)
            \/ AddReaction(p, m) \/ RemoveReaction(p, m)
  \/ ArchiveConversation

-----------------------------------------------------------------------------
(* Properties *)

\* A message holds words of its author's, or nothing any more: once it is
\* redacted, neither an edit nor a reaction that was on its way brings anything
\* back ("Redacted messages cannot be edited or reacted to",
\* docs/conversation-context.md).  Authors and whoever reacts are members.
MessagesHold ==
  \A m \in Message :
    LET it == conversation.messages[m] IN
    /\ it.status = "ACTIVE" => it.body = it.author
    /\ it.status = "REDACTED" => it.body = Redacted /\ it.reactions = {}
    /\ it.status # "ABSENT" => it.author \in conversation.members
    /\ it.reactions \subseteq conversation.members
=============================================================================
