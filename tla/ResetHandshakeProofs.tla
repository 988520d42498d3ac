------------------------ MODULE ResetHandshakeProofs ------------------------
(***************************************************************************)
(* Proofs about the reset request, for any bound on the requests.          *)
(*                                                                         *)
(* "The flag is down, so what is published is fresh" is not inductive: the *)
(* flag also comes down for a request that arrived during the wipe.  What  *)
(* makes that harmless is that nothing is measured between the wipe and    *)
(* the store that lowers the flag, so that at that store both copies are   *)
(* empty (Wiped).                                                          *)
(***************************************************************************)
EXTENDS ResetHandshake, TLAPS

Wiped ==
  /\ script \in {"wipeCollision", "wipeJariness", "lower"} =>
       \A f \in Field : measured[f] = {}
  /\ script \in {"wipeJariness", "lower"} => published["collision"] = {}
  /\ script = "lower" => published["jariness"] = {}

FreshInv ==
  ~ should_reset_agent =>
     \A f \in Field : measured[f] \subseteq {requests}
                      /\ published[f] \subseteq {requests}

IInv == HandshakeTypeOK /\ Wiped /\ FreshInv

(* A step of the script thread keeps the inductive invariant. *)
LEMMA ScriptKeepsInv == IInv /\ Script => IInv'
<1> SUFFICES ASSUME IInv, Script PROVE IInv'
  OBVIOUS
<1> USE RequestsAssumption DEF IInv, HandshakeTypeOK, Wiped, FreshInv, ScriptStep, Wipe,
        ScriptAt, Field
<1>1. CASE PollQuiet \/ PollReset \/ PollF11
  BY <1>1 DEF PollQuiet, PollReset, PollF11
<1>2. CASE WipeCamera
  BY <1>2 DEF WipeCamera
<1>3. CASE WipeMeasured
  BY <1>3 DEF WipeMeasured
<1>4. CASE WipeCollision
  BY <1>4 DEF WipeCollision, WipePublished
<1>5. CASE WipeJariness
  BY <1>5 DEF WipeJariness, WipePublished
<1>6. CASE LowerFlag
  BY <1>6 DEF LowerFlag
<1>7. CASE Measure
  BY <1>7 DEF Measure
<1>8. CASE PublishJariness
  BY <1>8 DEF PublishJariness, Publish
<1>9. CASE PublishCollision
  BY <1>9 DEF PublishCollision, Publish
<1> QED
  BY <1>1, <1>2, <1>3, <1>4, <1>5, <1>6, <1>7, <1>8, <1>9 DEF Script

(* So does every step. *)
LEMMA Invariance == HandshakeSpec => []IInv
<1>1. InitHandshake => IInv
  <2> SUFFICES ASSUME InitHandshake PROVE IInv
    OBVIOUS
  <2>1. measured \in [Field -> SUBSET (0 .. requests)]
    BY DEF InitHandshake
  <2>2. published \in [Field -> SUBSET (0 .. requests)]
    BY DEF InitHandshake
  <2>3. requests \in 0 .. MaxRequests
    BY RequestsAssumption DEF InitHandshake
  <2>6. /\ should_reset_agent \in BOOLEAN /\ kept \in BOOLEAN
        /\ camera \in {"default", "agent"} /\ script \in ScriptStep
    BY Zenon DEF InitHandshake, ScriptStep
  <2>4. Wiped
    BY DEF InitHandshake, Wiped
  <2>5. FreshInv
    BY DEF InitHandshake, FreshInv
  <2> QED
    BY <2>1, <2>2, <2>3, <2>4, <2>5, <2>6 DEF IInv, HandshakeTypeOK
<1>2. IInv /\ [NextHandshake]_handshakeVars => IInv'
  <2> SUFFICES ASSUME IInv, [NextHandshake]_handshakeVars PROVE IInv'
    OBVIOUS
  <2> USE RequestsAssumption DEF IInv, HandshakeTypeOK, Wiped, FreshInv
  <2>1. CASE RequestReset
    <3>1. SUBSET (0 .. requests) \subseteq SUBSET (0 .. requests')
      BY <2>1 DEF RequestReset
    <3>2. /\ measured' \in [Field -> SUBSET (0 .. requests')]
          /\ published' \in [Field -> SUBSET (0 .. requests')]
      BY <2>1, <3>1 DEF RequestReset
    <3>3. requests' \in 0 .. MaxRequests
      BY <2>1 DEF RequestReset
    <3>5. /\ should_reset_agent' \in BOOLEAN /\ kept' \in BOOLEAN
          /\ camera' \in {"default", "agent"} /\ script' \in ScriptStep
      BY <2>1, Zenon DEF RequestReset
    <3>4. Wiped' /\ FreshInv'
      BY <2>1 DEF RequestReset
    <3> QED
      BY <3>2, <3>3, <3>4, <3>5
  <2>2. CASE ChangeSettings
    BY <2>2 DEF ChangeSettings
  <2>3. CASE Script
    BY <2>3, ScriptKeepsInv
  <2>4. CASE UNCHANGED handshakeVars
    BY <2>4 DEF handshakeVars
  <2> QED
    BY <2>1, <2>2, <2>3, <2>4 DEF NextHandshake
<1> QED
  BY <1>1, <1>2, PTL DEF HandshakeSpec

(* Every reachable state has the types of HandshakeTypeOK. *)
THEOREM TypeCorrect == HandshakeSpec => []HandshakeTypeOK
<1>1. IInv => HandshakeTypeOK
  BY DEF IInv
<1> QED
  BY <1>1, Invariance, PTL

(* With the flag down, no collision and no jariness from before the latest
   request is visible. *)
THEOREM LoweredMeansFresh == HandshakeSpec => []FreshWhenLowered
<1>1. IInv => FreshWhenLowered
  BY DEF IInv, FreshInv, FreshWhenLowered
<1> QED
  BY <1>1, Invariance, PTL

(* A camera setting made with no reset pending is kept until the next request;
   the wipe that could undo it only runs while a request is pending, or is the
   F11 key's. *)
THEOREM SettingsAreKept == HandshakeSpec => []SettingKept
<1> DEFINE KeptInv == kept => camera = "agent" /\ script # "wipeCamera"
                                               /\ ~ should_reset_agent
<1>1. InitHandshake => KeptInv
  BY DEF InitHandshake
<1>2. KeptInv /\ [NextHandshake]_handshakeVars => KeptInv'
  <2> SUFFICES ASSUME KeptInv, [NextHandshake]_handshakeVars PROVE KeptInv'
    OBVIOUS
  <2>1. CASE RequestReset
    BY <2>1 DEF RequestReset
  <2>2. CASE ChangeSettings
    BY <2>2 DEF ChangeSettings, Wipe
  <2>3. CASE Script
    BY <2>3 DEF Script, ScriptAt, PollQuiet, PollReset, PollF11, WipeCamera,
                WipeMeasured, WipeCollision, WipeJariness, WipePublished,
                LowerFlag, Measure, PublishJariness, PublishCollision, Publish
  <2>4. CASE UNCHANGED handshakeVars
    BY <2>4 DEF handshakeVars
  <2> QED
    BY <2>1, <2>2, <2>3, <2>4 DEF NextHandshake
<1>3. KeptInv => SettingKept
  BY DEF SettingKept
<1> QED
  BY <1>1, <1>2, <1>3, PTL DEF HandshakeSpec

-----------------------------------------------------------------------------
(* The shared memory implements the mailbox: a store to the flag is a request
   or the serving of one, a store to a published field is a report, and every
   other step is invisible. *)
LEMMA ScriptSteps == IInv /\ Script => [Mailbox!Next]_Mailbox!vars
<1> SUFFICES ASSUME IInv, Script
             PROVE  [Mailbox!Next]_Mailbox!vars
  OBVIOUS
<1>1. CASE PollQuiet \/ PollReset \/ PollF11 \/ WipeCamera \/ WipeMeasured
  BY <1>1 DEF PollQuiet, PollReset, PollF11, WipeCamera, WipeMeasured,
              Mailbox!vars
<1>2. CASE Measure
  BY <1>2 DEF Measure, Mailbox!vars
<1>3. ASSUME NEW f \in Field, NEW S \in SUBSET (0 .. requests),
             published' = [published EXCEPT ![f] = S],
             ~ should_reset_agent => S \subseteq {requests},
             UNCHANGED <<requests, should_reset_agent>>
      PROVE  Mailbox!Next
  BY <1>3 DEF Mailbox!Next, Mailbox!Report
<1>4. CASE WipeCollision
  <2>1. "collision" \in Field /\ {} \in SUBSET (0 .. requests)
    BY DEF Field
  <2>2. Mailbox!Next
    BY <1>3, <1>4, <2>1 DEF WipeCollision, WipePublished
  <2> QED
    BY <2>2
<1>5. CASE WipeJariness
  <2>1. "jariness" \in Field /\ {} \in SUBSET (0 .. requests)
    BY DEF Field
  <2>2. Mailbox!Next
    BY <1>3, <1>5, <2>1 DEF WipeJariness, WipePublished
  <2> QED
    BY <2>2
<1>6. CASE PublishJariness
  BY <1>3, <1>6 DEF PublishJariness, Publish, IInv, FreshInv, HandshakeTypeOK, Field
<1>7. CASE PublishCollision
  BY <1>3, <1>7 DEF PublishCollision, Publish, IInv, FreshInv, HandshakeTypeOK, Field
<1>8. CASE LowerFlag
  <2>1. \A f \in Field : published[f] = {}
    BY <1>8 DEF LowerFlag, ScriptAt, IInv, Wiped, Field
  <2>2. CASE should_reset_agent
    BY <1>8, <2>1, <2>2 DEF LowerFlag, Mailbox!Next, Mailbox!Serve
  <2>3. CASE ~ should_reset_agent
    BY <1>8, <2>3 DEF LowerFlag, IInv, HandshakeTypeOK, Mailbox!vars
  <2> QED
    BY <2>2, <2>3
<1> QED
  BY <1>1, <1>2, <1>4, <1>5, <1>6, <1>7, <1>8 DEF Script

(* Store by store, the shared memory keeps the promise of ResetMailbox: a      *)
(* lowered flag means that only fresh values are reported (script.cpp:517-522). *)
THEOREM Refinement == HandshakeSpec => KeepsPromise
<1>1. InitHandshake => Mailbox!Init
  BY DEF InitHandshake, Mailbox!Init
<1>2. IInv /\ [NextHandshake]_handshakeVars => [Mailbox!Next]_Mailbox!vars
  <2> SUFFICES ASSUME IInv, [NextHandshake]_handshakeVars
               PROVE  [Mailbox!Next]_Mailbox!vars
    OBVIOUS
  <2>1. CASE RequestReset
    BY <2>1 DEF RequestReset, Mailbox!Next, Mailbox!Request
  <2>2. CASE ChangeSettings
    BY <2>2 DEF ChangeSettings, Mailbox!vars
  <2>3. CASE Script
    BY <2>3, ScriptSteps
  <2>4. CASE UNCHANGED handshakeVars
    BY <2>4 DEF handshakeVars, Mailbox!vars
  <2> QED
    BY <2>1, <2>2, <2>3, <2>4 DEF NextHandshake
<1> QED
  BY <1>1, <1>2, Invariance, PTL DEF HandshakeSpec, KeepsPromise, Mailbox!Spec
=============================================================================
