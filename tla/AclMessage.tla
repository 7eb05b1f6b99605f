----------------------------- MODULE AclMessage -----------------------------
(***************************************************************************)
(* The messages of the agent communication language (agent/protocol/       *)
(* acl.hh): to_json and from_json of `message' and of `acc', the           *)
(* conversation a message may carry, and deserialize, which fills an       *)
(* object that the agent already has.                                      *)
(*                                                                         *)
(* What a field holds is named by the message it was written for.  A JSON  *)
(* document, or its CBOR form, is a function from its keys to values; one  *)
(* that does not come from to_json may lack keys, for which json::at       *)
(* throws.                                                                 *)
(***************************************************************************)
EXTENDS Naturals, Sequences, FiniteSets

CONSTANTS
    Agents,      \* the agents, each with one message object
    Written      \* the messages that agents write, named by numbers

ASSUME WrittenAssumption == Written \subseteq Nat \ {0}

VARIABLES
    object,      \* of each agent: its message object
    outcome      \* of each agent: how the object was last filled

vars == <<object, outcome>>

Empty == 0
None == [none |-> TRUE]

Required == <<"type", "sender", "receivers", "content", "ontology">>
RequiredKeys == {Required[i] : i \in DOMAIN Required}

DefaultAcc == [identifier |-> Empty, protocol |-> Empty, reply_with |-> Empty, reply_by |-> Empty]
DefaultMessage == [type |-> Empty, sender |-> Empty, receivers |-> Empty, content |-> Empty,
                   ontology |-> Empty, communication |-> None]

Init ==
    /\ object = [a \in Agents |-> DefaultMessage]
    /\ outcome = [a \in Agents |-> "written"]

----------------------------------------------------------------------------
(***************************************************************************)
(* to_json: the identifier of a conversation stays behind, and so does the *)
(* envelope of a message, which neither conversion touches and which is    *)
(* left out here.  An optional string is Empty when it has no value.       *)
(***************************************************************************)
AccToJson(c) ==
    [k \in {"protocol"} \cup {r \in {"reply_with", "reply_by"} : c[r] # Empty} |-> c[k]]

ToJson(m) ==
    [k \in RequiredKeys \cup (IF m.communication = None THEN {} ELSE {"communication"}) |->
        IF k = "communication" THEN AccToJson(m.communication) ELSE m[k]]

(***************************************************************************)
(* from_json of acc.  The test is on the object being filled, not on the   *)
(* document.                                                               *)
(***************************************************************************)
AccFromJson(json, c) ==
    [k \in DOMAIN c |->
        IF k = "protocol" \/ (k \in {"reply_with", "reply_by"} /\ c[k] # Empty)
        THEN json[k] ELSE c[k]]

(***************************************************************************)
(* from_json of message: the keys it reads, in order, up to the first that *)
(* the document lacks.  The conversation is read if the object being       *)
(* filled has one, into an acc of its own.                                 *)
(***************************************************************************)
\* Mutation: the conversation is read first.
ConversationFirst(m) == (IF m.communication = None THEN << >> ELSE <<"communication">>) \o Required
\* Mutation: a field that the object already has is not read.
FieldsLacking(m) == SelectSeq(Required, LAMBDA k : k = "type" \/ m[k] = Empty)
\* Mutation: the conversation is never read.
RequiredOnly(m) == Required
KeysRead(m) == Required \o (IF m.communication = None THEN << >> ELSE <<"communication">>)

Lacking(json, m) == {i \in DOMAIN KeysRead(m) : KeysRead(m)[i] \notin DOMAIN json}

Throws(json, m) == Lacking(json, m) # {}

FromJson(json, m) ==
    LET keys == KeysRead(m)
        read == {keys[i] : i \in {j \in DOMAIN keys : \A n \in Lacking(json, m) : j < n}}
    IN  [k \in DOMAIN m |->
            IF k \notin read THEN m[k]
            ELSE IF k = "communication" THEN AccFromJson(json[k], DefaultAcc) ELSE json[k]]

Deserialize(json, b) ==
    /\ object' = [object EXCEPT ![b] = FromJson(json, @)]
    /\ outcome' = [outcome EXCEPT ![b] = IF Throws(json, object[b]) THEN "threw" ELSE "returned"]

----------------------------------------------------------------------------
Conversations(n) ==
    {None} \cup {[identifier |-> n, protocol |-> n, reply_with |-> r, reply_by |-> Empty] : r \in {Empty, n}}

Messages ==
    UNION {{[type |-> n, sender |-> n, receivers |-> n, content |-> n, ontology |-> n,
             communication |-> c] : c \in Conversations(n)} : n \in Written}

\* An agent fills its object with a message of its own.
Write(a) ==
    /\ \E m \in Messages : object' = [object EXCEPT ![a] = m]
    /\ outcome' = [outcome EXCEPT ![a] = "written"]

\* An agent sends its object to another: its own message, or one it passes on.
Send(a, b) ==
    /\ a # b
    /\ outcome[a] # "threw"
    /\ Deserialize(ToJson(object[a]), b)

\* A document from elsewhere, which may lack a key.
Receive(b) ==
    \E m \in Messages, lost \in RequiredKeys \cup {"communication"} :
        LET json == ToJson(m)
        IN  Deserialize([k \in DOMAIN json \ {lost} |-> json[k]], b)

Next ==
    \E a \in Agents :
        \/ Write(a)
        \/ Receive(a)
        \/ \E b \in Agents : Send(a, b)

Spec == Init /\ [][Next]_vars

----------------------------------------------------------------------------
Tags == Written \cup {Empty}

(***************************************************************************)
(* Type invariant.                                                         *)
(***************************************************************************)
TypeOK ==
    /\ DOMAIN object = Agents
    /\ \A a \in Agents :
          /\ DOMAIN object[a] = DOMAIN DefaultMessage
          /\ \A k \in RequiredKeys : object[a][k] \in Tags
          /\ object[a].communication \in {None} \cup [DOMAIN DefaultAcc -> Tags]
    /\ outcome \in [Agents -> {"written", "returned", "threw"}]

(***************************************************************************)
(* A message that was read without an exception is one that some agent     *)
(* wrote, not a mixture with what the object held before, however often    *)
(* objects are reused, half-read and passed on.                            *)
(***************************************************************************)
ReadsOneMessage ==
    \A a \in Agents : outcome[a] # "threw" =>
        \A j, k \in RequiredKeys : object[a][j] = object[a][k]

(***************************************************************************)
(* The conversation of a message that was read without an exception is     *)
(* that of the message, never the one an earlier message left behind.      *)
(***************************************************************************)
ReadsItsConversation ==
    \A a \in Agents : outcome[a] # "threw" /\ object[a].communication # None =>
        object[a].communication.protocol = object[a].content

(***************************************************************************)
(* When reading fails half-way, the conversation stays as it was: it is    *)
(* replaced only together with the whole message.                          *)
(***************************************************************************)
KeepsConversationOnFailure ==
    [][\A a \in Agents :
          outcome'[a] = "threw" => object'[a].communication = object[a].communication]_vars

(***************************************************************************)
(* "conversation information that could be transmitted in order to         *)
(* initiate or continue an Agent Communication Channel" (acl.hh): whoever  *)
(* reads a message that carries a conversation gets its protocol.          *)
(***************************************************************************)
TransmitsConversation ==
    [][\A a, b \in Agents :
          Send(a, b) /\ object[a].communication # None /\ outcome'[b] = "returned" =>
              /\ object'[b].communication # None
              /\ object'[b].communication.protocol = object[a].communication.protocol]_vars
=============================================================================
