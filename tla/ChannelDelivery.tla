--------------------------- MODULE ChannelDelivery ---------------------------
(***************************************************************************)
(* SendNotification recipient by recipient: what the passes over one       *)
(* notification, its first send, its retries and the repeats that crashes  *)
(* and expired leases bring, do to each of its recipients.                 *)
(*                                                                         *)
(* In Environment a pass is one action, Attempt.  Here it is a sequence of *)
(* calls to a provider; when passes are made, and how many, is left open.  *)
(*                                                                         *)
(* A recipient stands for what TrimSpace leaves of it, Blank for nothing.  *)
(* Requests are validated to have at most 50 recipients, so that a push to *)
(* tokens is a single multicast (of up to 500).                            *)
(***************************************************************************)
EXTENDS Naturals, Sequences

CONSTANTS
    Address, Blank,   \* what clients put in a list of recipients
    Recipients,       \* the list of this notification
    Workers,          \* the consumers, of either queue, that may make a pass
    MaxPasses         \* bound on the passes that are made

ASSUME BlankAssumption == Blank \notin Address
ASSUME RecipientsAssumption ==
    Recipients \in Seq(Address \union {Blank}) /\ Recipients # <<>>
ASSUME PassesAssumption == MaxPasses \in Nat

VARIABLES
    channel,      \* the channel of the notification, TOKENS and TOPICS for PUSH
    accepted,     \* accepted[i]: how often recipient i was accepted
    pass,         \* pass[w]: the pass w is making
    passes,       \* how many passes have begun
    completed     \* a pass has been recorded as successful

vars == <<channel, accepted, pass, passes, completed>>

Channels == {"EMAIL", "SMS", "TOKENS", "TOPICS", "IN_APP"}
Places == DOMAIN Recipients

\* left: the recipients a pass has still to serve; succeeded: SuccessCount # 0.
Passes == [pc : {"idle", "sending", "sent", "failed"},
           left : SUBSET Places, succeeded : BOOLEAN]
NoPass == [pc |-> "idle", left |-> {}, succeeded |-> FALSE]

TypeOK ==
    /\ channel \in Channels
    /\ accepted \in [Places -> Nat]
    /\ pass \in [Workers -> Passes]
    /\ passes \in 0 .. MaxPasses
    /\ completed \in BOOLEAN

Init ==
    /\ channel \in Channels
    /\ accepted = [i \in Places |-> 0]
    /\ pass = [w \in Workers |-> NoPass]
    /\ passes = 0
    /\ completed = FALSE

-----------------------------------------------------------------------------

\* filterNonEmptyTokens, filterNonEmptyTopics.
NonBlank == {i \in Places : Recipients[i] # Blank}

\* The users of sendInApp, each at its first place in the list.
FirstPlaces ==
    {i \in NonBlank : \A j \in Places : j < i => Recipients[j] # Recipients[i]}

\* Variant with a bug: a user listed twice is not noticed.
TargetsRepeated ==
    CASE channel \in {"EMAIL", "SMS"} -> Places
      [] OTHER -> NonBlank

\* The recipients a pass is for.
Targets ==
    CASE channel \in {"EMAIL", "SMS"} -> Places
      [] channel \in {"TOKENS", "TOPICS"} -> NonBlank
      [] channel = "IN_APP" -> FirstPlaces

\* The recipient whose turn it is in a loop over the list.
Front(w) == {i \in pass[w].left : \A j \in pass[w].left : i <= j}

AcceptedBy(S) ==
    accepted' = [i \in Places |-> IF i \in S THEN accepted[i] + 1 ELSE accepted[i]]

Goto(w, pc) == pass' = [pass EXCEPT ![w].pc = pc]

\* A pass begins; it fails before any provider is called if there is nobody
\* to serve, nothing to say or no client configured.
Begin(w) ==
    /\ pass[w] = NoPass
    /\ passes < MaxPasses
    /\ passes' = passes + 1
    /\ \/ /\ Targets # {}
          /\ pass' = [pass EXCEPT ![w] = [NoPass EXCEPT !.pc = "sending",
                                                        !.left = Targets]]
       \/ Goto(w, "failed")
    /\ UNCHANGED <<channel, accepted, completed>>

\* Resend is given the whole list, and the mailbox rows are one INSERT: all or
\* none, and an error does not tell which.
SendWhole(w) ==
    /\ pass[w].pc = "sending" /\ channel \in {"EMAIL", "IN_APP"}
    /\ \/ AcceptedBy(pass[w].left) /\ \E pc \in {"sent", "failed"} : Goto(w, pc)
       \/ AcceptedBy({}) /\ Goto(w, "failed")
    /\ UNCHANGED <<channel, passes, completed>>

\* Variant with a bug: a recipient that fails is passed over.
SendSMSOnError(w) ==
    /\ pass[w].pc = "sending" /\ channel = "SMS"
    /\ \E i \in Front(w) :
          /\ AcceptedBy({i}) \/ AcceptedBy({})
          /\ pass' = [pass EXCEPT ![w] =
                [pc |-> IF pass[w].left = {i} THEN "sent" ELSE "sending",
                 left |-> pass[w].left \ {i}, succeeded |-> FALSE]]
    /\ UNCHANGED <<channel, passes, completed>>

\* One iteration of the Twilio client; an error ends the loop.
SendSMS(w) ==
    /\ pass[w].pc = "sending" /\ channel = "SMS"
    /\ \E i \in Front(w) :
          \/ /\ AcceptedBy({i})
             /\ pass' = [pass EXCEPT ![w] =
                   [pc |-> IF pass[w].left = {i} THEN "sent" ELSE "sending",
                    left |-> pass[w].left \ {i}, succeeded |-> FALSE]]
          \/ (AcceptedBy({i}) \/ AcceptedBy({})) /\ Goto(w, "failed")
    /\ UNCHANGED <<channel, passes, completed>>

\* Variant with a bug: the counts of the outcome are not looked at.
SendToTokensUncounted(w) ==
    /\ pass[w].pc = "sending" /\ channel = "TOKENS"
    /\ \E S \in SUBSET pass[w].left :
          AcceptedBy(S) /\ \E pc \in {"sent", "failed"} : Goto(w, pc)
    /\ UNCHANGED <<channel, passes, completed>>

\* SendToTokens: FCM accepts some tokens and reports some of these; the pass
\* is successful if it reports any.
SendToTokens(w) ==
    /\ pass[w].pc = "sending" /\ channel = "TOKENS"
    /\ \E S \in SUBSET pass[w].left :
          /\ AcceptedBy(S)
          /\ Goto(w, "failed") \/ (S # {} /\ Goto(w, "sent"))
    /\ UNCHANGED <<channel, passes, completed>>

\* Variant with a bug: a result that no consumer expects.
SendToTopicPartly(w) ==
    /\ pass[w].pc = "sending" /\ channel = "TOPICS"
    /\ \E i \in Front(w) :
          /\ AcceptedBy({i}) \/ AcceptedBy({})
          /\ pass' = [pass EXCEPT ![w].left = @ \ {i},
                         ![w].pc = IF pass[w].left = {i} THEN "partial" ELSE @]
    /\ UNCHANGED <<channel, passes, completed>>

\* One iteration of SendToTopics; a topic that fails is counted and passed over.
SendToTopic(w) ==
    /\ pass[w].pc = "sending" /\ channel = "TOPICS"
    /\ \E i \in Front(w), ok \in BOOLEAN :
          /\ AcceptedBy({i}) \/ (~ok /\ AcceptedBy({}))
          /\ LET succeeded == pass[w].succeeded \/ ok IN
             pass' = [pass EXCEPT ![w] =
                [pc |-> IF pass[w].left # {i} THEN "sending"
                        ELSE IF succeeded THEN "sent" ELSE "failed",
                 left |-> pass[w].left \ {i}, succeeded |-> succeeded]]
    /\ UNCHANGED <<channel, passes, completed>>

\* The consumer records the result, or fails to, and acknowledges.
Record(w) ==
    /\ pass[w].pc \in {"sent", "failed"}
    /\ completed' \in {completed, completed \/ pass[w].pc = "sent"}
    /\ pass' = [pass EXCEPT ![w] = NoPass]
    /\ UNCHANGED <<channel, accepted, passes>>

\* The pod dies in the middle of a pass.
Crash(w) ==
    /\ pass[w] # NoPass
    /\ pass' = [pass EXCEPT ![w] = NoPass]
    /\ UNCHANGED <<channel, accepted, passes, completed>>

Next == \E w \in Workers :
    \/ Begin(w) \/ SendWhole(w) \/ SendSMS(w) \/ SendToTokens(w)
    \/ SendToTopic(w) \/ Record(w) \/ Crash(w)

Spec == Init /\ [][Next]_vars

-----------------------------------------------------------------------------

\* What COMPLETED means: e-mail, SMS and in-app messages have reached all the
\* recipients, a push at least one of them.
Served ==
    IF channel \in {"TOKENS", "TOPICS"}
    THEN \E i \in Targets : accepted[i] > 0
    ELSE \A i \in Targets : accepted[i] > 0

CompletedMeansServed == completed => Served

\* Text messages reach the recipients in the order of the list, whatever
\* passes overlap or are cut short: none has had more of them than one before.
EarlierRecipientsFirst ==
    channel = "SMS" =>
        \A i, j \in Places : i < j => accepted[j] <= accepted[i]

\* A pass serves a recipient once, and a user of the in-app channel has one
\* message for each pass, at one place of the list.
OnceInEachPass ==
    /\ \A i \in Places : accepted[i] <= passes
    /\ channel = "IN_APP" =>
          \A i, j \in Places : i # j /\ Recipients[i] = Recipients[j]
              => accepted[i] = 0 \/ accepted[j] = 0

=============================================================================
