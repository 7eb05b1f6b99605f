-------------------------- MODULE AclMessageProofs --------------------------
(***************************************************************************)
(* For any agents and any messages, an object that was filled without an   *)
(* exception holds one message, with its own conversation.  The two        *)
(* properties and the types are inductive as they stand: what is sent was  *)
(* itself filled without an exception, and to_json and from_json agree on  *)
(* the keys that every message has.                                        *)
(***************************************************************************)
EXTENDS AclMessage, TLAPS

IsMessage(m) ==
    /\ DOMAIN m = RequiredKeys \cup {"communication"}
    /\ \A k \in RequiredKeys : m[k] \in Tags
    /\ m.communication \in {None} \cup [DOMAIN DefaultAcc -> Tags]

IsOneMessage(m) ==
    /\ IsMessage(m)
    /\ \A j, k \in RequiredKeys : m[j] = m[k]
    /\ m.communication # None => m.communication.protocol = m.content

\* What to_json may have written, perhaps with keys taken out.
IsDocument(json) ==
    /\ DOMAIN json \subseteq RequiredKeys \cup {"communication"}
    /\ \A k \in RequiredKeys \cap DOMAIN json : json[k] \in Tags
    /\ "communication" \in DOMAIN json => json.communication.protocol \in Tags

IsOneDocument(json) ==
    /\ IsDocument(json)
    /\ \A j, k \in RequiredKeys \cap DOMAIN json : json[j] = json[k]
    /\ {"communication", "content"} \subseteq DOMAIN json =>
          json.communication.protocol = json.content

IInv == TypeOK /\ ReadsOneMessage /\ ReadsItsConversation

----------------------------------------------------------------------------
LEMMA Keys ==
    /\ RequiredKeys = {"type", "sender", "receivers", "content", "ontology"}
    /\ DOMAIN DefaultMessage = RequiredKeys \cup {"communication"}
    /\ DOMAIN DefaultAcc = {"identifier", "protocol", "reply_with", "reply_by"}
<1>1. DOMAIN Required = {1, 2, 3, 4, 5}
  BY DEF Required
<1>2. RequiredKeys = {"type", "sender", "receivers", "content", "ontology"}
  BY <1>1 DEF RequiredKeys, Required
<1> QED
  BY <1>2 DEF DefaultMessage, DefaultAcc

LEMMA OneMore ==
    ASSUME NEW S, NEW s \in Seq(S), NEW e \in S
    PROVE  /\ DOMAIN (s \o <<e>>) = 1 .. (Len(s) + 1)
           /\ \A i \in 1 .. Len(s) : (s \o <<e>>)[i] = s[i]
           /\ (s \o <<e>>)[Len(s) + 1] = e
  OBVIOUS

(***************************************************************************)
(* The conversation is the last key that from_json reads, if it is read.   *)
(***************************************************************************)
LEMMA ReadKeys ==
    ASSUME NEW m
    PROVE  LET n == IF m.communication = None THEN 5 ELSE 6
           IN  /\ DOMAIN KeysRead(m) = 1 .. n
               /\ \A i \in 1 .. 5 : KeysRead(m)[i] = Required[i]
               /\ n = 6 => KeysRead(m)[6] = "communication"
<1>1. CASE m.communication = None
  <2>1. KeysRead(m) = <<"type", "sender", "receivers", "content", "ontology">>
    BY <1>1 DEF KeysRead, Required
  <2> QED
    BY <1>1, <2>1 DEF Required
<1>2. CASE m.communication # None
  <2> DEFINE K == {"type", "sender", "receivers", "content", "ontology", "communication"}
  <2>1. KeysRead(m) = Required \o <<"communication">>
    BY <1>2 DEF KeysRead
  <2>2. Required \in Seq(K)
    BY DEF Required
  <2>3. Len(Required) = 5
    BY DEF Required
  <2>4. "communication" \in K
    OBVIOUS
  <2> HIDE DEF K
  <2>5. /\ DOMAIN KeysRead(m) = 1 .. (Len(Required) + 1)
        /\ \A i \in 1 .. Len(Required) : KeysRead(m)[i] = Required[i]
        /\ KeysRead(m)[Len(Required) + 1] = "communication"
    BY <2>1, <2>2, <2>4, OneMore
  <2>6. Len(Required) + 1 = 6
    BY <2>3
  <2> QED
    BY <1>2, <2>3, <2>5, <2>6
<1> QED
  BY <1>1, <1>2

LEMMA RequiredIndex == RequiredKeys = {Required[i] : i \in 1 .. 5}
  BY DEF RequiredKeys, Required

\* to_json writes documents.
LEMMA ToJsonDocument ==
    ASSUME NEW m, IsMessage(m)
    PROVE  /\ IsDocument(ToJson(m))
           /\ IsOneMessage(m) => IsOneDocument(ToJson(m))
<1> DEFINE json == ToJson(m)
<1>1. /\ DOMAIN json \subseteq RequiredKeys \cup {"communication"}
      /\ \A k \in RequiredKeys : json[k] = m[k]
      /\ "communication" \in DOMAIN json =>
            m.communication # None /\ json["communication"] = AccToJson(m.communication)
  BY Keys DEF ToJson
<1>2. AccToJson(m.communication).protocol = m.communication.protocol
  BY DEF AccToJson
<1>3. m.communication # None => m.communication.protocol \in Tags
  BY Keys DEF IsMessage
<1> HIDE DEF json
<1>4. IsDocument(json)
  BY <1>1, <1>2, <1>3 DEF IsDocument, IsMessage
<1>5. IsOneMessage(m) => IsOneDocument(json)
  BY <1>1, <1>2, <1>4, Keys DEF IsOneDocument, IsOneMessage
<1> QED
  BY <1>4, <1>5 DEF json

----------------------------------------------------------------------------
(***************************************************************************)
(* What from_json leaves in the object m when it is given json.            *)
(***************************************************************************)
LEMMA Filled ==
    ASSUME NEW m, IsMessage(m), NEW json
    PROVE  /\ DOMAIN FromJson(json, m) = DOMAIN m
           /\ \A k \in RequiredKeys :
                 \/ FromJson(json, m)[k] = m[k] /\ Throws(json, m)
                 \/ FromJson(json, m)[k] = json[k] /\ k \in DOMAIN json
           /\ \/ /\ FromJson(json, m).communication = m.communication
                 /\ Throws(json, m) \/ m.communication = None
              \/ /\ FromJson(json, m).communication = AccFromJson(json.communication, DefaultAcc)
                 /\ "communication" \in DOMAIN json
                 /\ ~Throws(json, m) /\ m.communication # None
<1> DEFINE keys == KeysRead(m)
           lacking == Lacking(json, m)
           read == {keys[i] : i \in {j \in DOMAIN keys : \A n \in lacking : j < n}}
<1>1. lacking = {i \in DOMAIN keys : keys[i] \notin DOMAIN json}
  BY DEF Lacking
<1>2. Throws(json, m) <=> lacking # {}
  BY DEF Throws
<1>3. \A k \in DOMAIN m : FromJson(json, m)[k] =
          IF k \notin read THEN m[k]
          ELSE IF k = "communication" THEN AccFromJson(json[k], DefaultAcc) ELSE json[k]
  BY DEF FromJson
<1>4. DOMAIN FromJson(json, m) = DOMAIN m
  BY DEF FromJson
<1>5. /\ DOMAIN keys = 1 .. (IF m.communication = None THEN 5 ELSE 6)
      /\ \A i \in 1 .. 5 : keys[i] = Required[i]
      /\ m.communication # None => keys[6] = "communication"
  BY ReadKeys
<1>6. \A i \in 1 .. 5 : Required[i] # "communication"
  BY RequiredIndex, Keys
<1> HIDE DEF keys, lacking
<1>7. \A k \in read : k \in DOMAIN json
  <2> SUFFICES ASSUME NEW i \in DOMAIN keys, \A n \in lacking : i < n
               PROVE  keys[i] \in DOMAIN json
    OBVIOUS
  <2>1. i \notin lacking
    BY <1>5
  <2> QED
    BY <1>1, <2>1
<1>8. ASSUME NEW k \in RequiredKeys, k \notin read PROVE Throws(json, m)
  <2>1. PICK i \in 1 .. 5 : k = Required[i]
    BY RequiredIndex
  <2>2. i \in DOMAIN keys /\ keys[i] = k
    BY <1>5, <2>1
  <2> QED
    BY <1>2, <1>8, <2>2
<1>9. "communication" \in read => ~Throws(json, m) /\ m.communication # None
  <2> SUFFICES ASSUME NEW i \in DOMAIN keys, \A n \in lacking : i < n,
                      keys[i] = "communication"
               PROVE  lacking = {} /\ m.communication # None
    BY <1>2
  <2>1. m.communication # None /\ i = 6
    BY <1>5, <1>6
  <2>2. lacking \subseteq 1 .. 6
    BY <1>1, <1>5
  <2> QED
    BY <2>1, <2>2
<1>10. "communication" \notin read => Throws(json, m) \/ m.communication = None
  <2> SUFFICES ASSUME m.communication # None, "communication" \notin read
               PROVE  lacking # {}
    BY <1>2
  <2> QED
    BY <1>5
<1> HIDE DEF read
<1>11. ASSUME NEW k \in RequiredKeys
       PROVE  \/ FromJson(json, m)[k] = m[k] /\ Throws(json, m)
              \/ FromJson(json, m)[k] = json[k] /\ k \in DOMAIN json
  BY <1>3, <1>7, <1>8, <1>11, Keys DEF IsMessage
<1>12. FromJson(json, m)["communication"] =
           IF "communication" \in read
           THEN AccFromJson(json["communication"], DefaultAcc) ELSE m["communication"]
  BY <1>3 DEF IsMessage
<1> QED
  BY <1>4, <1>7, <1>9, <1>10, <1>11, <1>12

\* An acc made from a document has its protocol, and nothing else.
LEMMA FilledAcc ==
    ASSUME NEW json, json.protocol \in Tags
    PROVE  /\ AccFromJson(json, DefaultAcc) \in [DOMAIN DefaultAcc -> Tags]
           /\ AccFromJson(json, DefaultAcc).protocol = json.protocol
  BY Keys DEF AccFromJson, DefaultAcc, Tags

LEMMA FilledIsMessage ==
    ASSUME NEW m, IsMessage(m), NEW json, IsDocument(json)
    PROVE  IsMessage(FromJson(json, m))
<1> DEFINE f == FromJson(json, m)
<1>1. DOMAIN f = RequiredKeys \cup {"communication"}
  BY Filled DEF IsMessage
<1>2. ASSUME NEW k \in RequiredKeys PROVE f[k] \in Tags
  <2>1. f[k] = m[k] \/ (f[k] = json[k] /\ k \in DOMAIN json)
    BY <1>2, Filled
  <2> QED
    BY <1>2, <2>1 DEF IsMessage, IsDocument
<1>3. f.communication \in {None} \cup [DOMAIN DefaultAcc -> Tags]
  <2>1. \/ f.communication = m.communication
        \/ /\ f.communication = AccFromJson(json.communication, DefaultAcc)
           /\ "communication" \in DOMAIN json
    BY Filled
  <2>2. CASE f.communication = m.communication
    BY <2>2 DEF IsMessage
  <2>3. CASE /\ f.communication = AccFromJson(json.communication, DefaultAcc)
             /\ "communication" \in DOMAIN json
    BY <2>3, FilledAcc DEF IsDocument
  <2> QED
    BY <2>1, <2>2, <2>3
<1> HIDE DEF f
<1>4. IsMessage(f)
  BY <1>1, <1>2, <1>3 DEF IsMessage
<1> QED
  BY <1>4 DEF f

LEMMA FilledIsOneMessage ==
    ASSUME NEW m, IsMessage(m), NEW json, IsOneDocument(json), ~Throws(json, m)
    PROVE  IsOneMessage(FromJson(json, m))
<1> DEFINE f == FromJson(json, m)
<1>1. IsMessage(f)
  BY FilledIsMessage DEF IsOneDocument
<1>2. \A k \in RequiredKeys : f[k] = json[k] /\ k \in DOMAIN json
  BY Filled
<1>3. f.communication # None =>
         /\ f.communication = AccFromJson(json.communication, DefaultAcc)
         /\ "communication" \in DOMAIN json
  BY Filled
<1> HIDE DEF f
<1>4. \A j, k \in RequiredKeys : f[j] = f[k]
  BY <1>2 DEF IsOneDocument
<1>5. f.communication # None => f.communication.protocol = f.content
  <2> SUFFICES ASSUME f.communication # None PROVE f.communication.protocol = f.content
    OBVIOUS
  <2>1. f.communication.protocol = json.communication.protocol
    BY <1>3, FilledAcc DEF IsOneDocument, IsDocument
  <2>2. f.content = json.content /\ "content" \in DOMAIN json
    BY <1>2, Keys
  <2> QED
    BY <1>3, <2>1, <2>2 DEF IsOneDocument
<1>6. IsOneMessage(f)
  BY <1>1, <1>4, <1>5 DEF IsOneMessage
<1> QED
  BY <1>6 DEF f

----------------------------------------------------------------------------
LEMMA Objects ==
    IInv <=> /\ DOMAIN object = Agents
             /\ outcome \in [Agents -> {"written", "returned", "threw"}]
             /\ \A a \in Agents : IsMessage(object[a])
             /\ \A a \in Agents : outcome[a] # "threw" => IsOneMessage(object[a])
  BY Keys DEF IInv, TypeOK, ReadsOneMessage, ReadsItsConversation, IsMessage, IsOneMessage

LEMMA WrittenIsOneMessage ==
    ASSUME NEW m \in Messages
    PROVE  IsOneMessage(m)
<1>0. PICK n \in Written : \E c \in Conversations(n) :
          m = [type |-> n, sender |-> n, receivers |-> n, content |-> n, ontology |-> n,
               communication |-> c]
  BY DEF Messages
<1>1. PICK c \in Conversations(n) :
          m = [type |-> n, sender |-> n, receivers |-> n, content |-> n, ontology |-> n,
               communication |-> c]
  BY <1>0
<1>2. c \in {None} \cup [DOMAIN DefaultAcc -> Tags]
  BY <1>1, Keys DEF Conversations, Tags
<1>3. c # None => c.protocol = n
  BY <1>1 DEF Conversations
<1>4. n \in Tags
  BY DEF Tags
<1> QED
  BY <1>1, <1>2, <1>3, <1>4, Keys DEF IsOneMessage, IsMessage

LEMMA InitIInv ==
    ASSUME Init
    PROVE  IInv
<1>1. IsOneMessage(DefaultMessage)
  BY Keys DEF IsOneMessage, IsMessage, DefaultMessage, Tags, None
<1> QED
  BY <1>1, Objects DEF Init, IsOneMessage

LEMMA DeserializeIInv ==
    ASSUME IInv, NEW b \in Agents, NEW json, IsOneDocument(json), Deserialize(json, b)
    PROVE  IInv'
<1> DEFINE f == FromJson(json, object[b])
<1>1. /\ DOMAIN object = Agents
      /\ outcome \in [Agents -> {"written", "returned", "threw"}]
      /\ \A a \in Agents : IsMessage(object[a])
      /\ \A a \in Agents : outcome[a] # "threw" => IsOneMessage(object[a])
  BY Objects
<1>2. /\ object' = [object EXCEPT ![b] = f]
      /\ outcome' = [outcome EXCEPT ![b] = IF Throws(json, object[b]) THEN "threw" ELSE "returned"]
  BY DEF Deserialize
<1>3. IsMessage(f)
  BY <1>1, FilledIsMessage DEF IsOneDocument
<1>4. ~Throws(json, object[b]) => IsOneMessage(f)
  BY <1>1, FilledIsOneMessage
<1> HIDE DEF f
<1>5. /\ DOMAIN object' = Agents
      /\ outcome' \in [Agents -> {"written", "returned", "threw"}]
      /\ \A a \in Agents : IsMessage(object'[a])
      /\ \A a \in Agents : outcome'[a] # "threw" => IsOneMessage(object'[a])
  BY <1>1, <1>2, <1>3, <1>4
<1> QED
  BY <1>5, Keys
     DEF IInv, TypeOK, ReadsOneMessage, ReadsItsConversation, IsMessage, IsOneMessage

LEMMA NextIInv ==
    ASSUME IInv, [Next]_vars
    PROVE  IInv'
<1>1. CASE UNCHANGED vars
  BY <1>1 DEF IInv, TypeOK, ReadsOneMessage, ReadsItsConversation, vars
<1>2. ASSUME NEW a \in Agents, Write(a) PROVE IInv'
  <2>1. PICK m \in Messages : object' = [object EXCEPT ![a] = m]
    BY <1>2 DEF Write
  <2>2. IsOneMessage(m) /\ IsMessage(m)
    BY WrittenIsOneMessage DEF IsOneMessage
  <2>3. /\ DOMAIN object' = Agents
        /\ outcome' \in [Agents -> {"written", "returned", "threw"}]
        /\ \A d \in Agents : IsMessage(object'[d])
        /\ \A d \in Agents : outcome'[d] # "threw" => IsOneMessage(object'[d])
    BY <1>2, <2>1, <2>2, Objects DEF Write
  <2> QED
    BY <2>3, Keys
       DEF IInv, TypeOK, ReadsOneMessage, ReadsItsConversation, IsMessage, IsOneMessage
<1>3. ASSUME NEW a \in Agents, NEW b \in Agents, Send(a, b) PROVE IInv'
  <2>1. IsOneMessage(object[a]) /\ IsMessage(object[a])
    BY <1>3, Objects DEF Send
  <2>2. IsOneDocument(ToJson(object[a]))
    BY <2>1, ToJsonDocument
  <2> QED
    BY <1>3, <2>2, DeserializeIInv DEF Send
<1>4. ASSUME NEW b \in Agents, Receive(b) PROVE IInv'
  <2>1. PICK m \in Messages, lost \in RequiredKeys \cup {"communication"} :
            Deserialize([k \in DOMAIN ToJson(m) \ {lost} |-> ToJson(m)[k]], b)
    BY <1>4 DEF Receive
  <2>2. IsOneMessage(m) /\ IsMessage(m)
    BY WrittenIsOneMessage DEF IsOneMessage
  <2>3. IsOneDocument(ToJson(m))
    BY <2>2, ToJsonDocument
  <2>4. IsOneDocument([k \in DOMAIN ToJson(m) \ {lost} |-> ToJson(m)[k]])
    BY <2>3 DEF IsOneDocument, IsDocument
  <2> QED
    BY <1>4, <2>1, <2>4, DeserializeIInv
<1> QED
  BY <1>1, <1>2, <1>3, <1>4 DEF Next

LEMMA Inductive == Spec => []IInv
<1>1. Init => IInv
  BY InitIInv
<1>2. IInv /\ [Next]_vars => IInv'
  BY NextIInv
<1> QED
  BY <1>1, <1>2, PTL DEF Spec

----------------------------------------------------------------------------
(***************************************************************************)
(* Each field of a message holds what some message had, and an optional    *)
(* conversation has all its fields: the type invariant, for any agents and *)
(* messages.                                                               *)
(***************************************************************************)
THEOREM TypeCorrect == Spec => []TypeOK
<1>1. IInv => TypeOK
  BY DEF IInv
<1> QED
  BY <1>1, Inductive, PTL

(***************************************************************************)
(* A message that deserialize returned is one message: no field is left    *)
(* from the message the object held, or was half filled with, before.      *)
(***************************************************************************)
THEOREM ReadsWhole == Spec => []ReadsOneMessage
<1>1. IInv => ReadsOneMessage
  BY DEF IInv
<1> QED
  BY <1>1, Inductive, PTL

(***************************************************************************)
(* A conversation that deserialize returned is that of the message read    *)
(* with it.                                                                *)
(***************************************************************************)
THEOREM ConversationBelongs == Spec => []ReadsItsConversation
<1>1. IInv => ReadsItsConversation
  BY DEF IInv
<1> QED
  BY <1>1, Inductive, PTL

(***************************************************************************)
(* from_json reads the conversation after every key that can be lacking,   *)
(* so an exception leaves the conversation of the object untouched.        *)
(***************************************************************************)
THEOREM ConversationKept == Spec => KeepsConversationOnFailure
<1> DEFINE Keeps ==
        \A a \in Agents :
            outcome'[a] = "threw" => object'[a].communication = object[a].communication
<1>1. ASSUME IInv, NEW b \in Agents, NEW json, Deserialize(json, b) PROVE Keeps
  <2> SUFFICES ASSUME NEW a \in Agents, outcome'[a] = "threw"
               PROVE  object'[a].communication = object[a].communication
    OBVIOUS
  <2>1. DOMAIN object = Agents /\ IsMessage(object[b]) /\ outcome \in [Agents -> {"written", "returned", "threw"}]
    BY <1>1, Objects
  <2>2. CASE a = b
    <3>1. Throws(json, object[b])
      BY <1>1, <2>1, <2>2 DEF Deserialize
    <3>2. FromJson(json, object[b]).communication = object[b].communication
      BY <2>1, <3>1, Filled
    <3> QED
      BY <1>1, <2>1, <2>2, <3>2 DEF Deserialize
  <2>3. CASE a # b
    BY <1>1, <2>1, <2>3 DEF Deserialize
  <2> QED
    BY <2>2, <2>3
<1>2. IInv /\ [Next]_vars => [Keeps]_vars
  <2> SUFFICES ASSUME IInv, Next PROVE Keeps
    OBVIOUS
  <2>1. ASSUME NEW a \in Agents, Write(a) PROVE Keeps
    BY <2>1, Objects DEF Write
  <2>2. ASSUME NEW a \in Agents, NEW b \in Agents, Send(a, b) PROVE Keeps
    BY <1>1, <2>2 DEF Send
  <2>3. ASSUME NEW b \in Agents, Receive(b) PROVE Keeps
    <3>1. PICK json : Deserialize(json, b)
      BY <2>3 DEF Receive
    <3> QED
      BY <1>1, <3>1
  <2> QED
    BY <2>1, <2>2, <2>3 DEF Next
<1> QED
  BY <1>2, Inductive, PTL DEF Spec, KeepsConversationOnFailure
=============================================================================
