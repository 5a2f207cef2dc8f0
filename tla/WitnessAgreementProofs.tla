----------------------- MODULE WitnessAgreementProofs -----------------------
(***************************************************************************)
(* That WitnessAgreement keeps its promise, for any number of peers.       *)
(***************************************************************************)
EXTENDS WitnessAgreement, TLAPS

\* What endpoints have recorded is theirs to record.
RecordedType == recorded \in [Endpoints -> Node \cup {NoPeer}]

\* Agreement holds in the initial state.
LEMMA AgreementInitially ==
  ASSUME AgreementInit
  PROVE  RecordedType /\ Agreement
  BY DEF AgreementInit, RecordedType, Agreement

\* No step of an endpoint or of a witness takes it away.
LEMMA AgreementKept ==
  ASSUME RecordedType, Agreement, [AgreementNext]_agreementVars
  PROVE  RecordedType' /\ Agreement'
<1>. USE DEF RecordedType, Agreement
<1>1. CASE UNCHANGED agreementVars
  BY <1>1 DEF agreementVars
<1>2. ASSUME NEW w \in Node, Agree(w)
      PROVE  RecordedType' /\ Agreement'
  BY <1>2 DEF Agree
<1>3. ASSUME NEW e \in Endpoints, NEW w \in Node, Record(e, w)
      PROVE  RecordedType' /\ Agreement'
  <2>1. recorded' = [recorded EXCEPT ![e] = w] /\ UNCHANGED agreed
    BY <1>3 DEF Record
  <2>2. w \in agreed /\ \A other \in Endpoints : recorded[other] \in {NoPeer, w}
    BY <1>3 DEF Record
  <2>. QED
    BY <2>1, <2>2
<1>. QED
  BY <1>1, <1>2, <1>3 DEF AgreementNext

\* The endpoints never have different witnesses, nor one that has not agreed
\* (findWitness and the notification handler, by AgreementImplemented of
\* ClarinetConnectionProofs).
THEOREM AgreementHolds == AgreementSpec => []Agreement
<1>1. AgreementInit => RecordedType /\ Agreement
  BY AgreementInitially
<1>2. RecordedType /\ Agreement /\ [AgreementNext]_agreementVars => (RecordedType /\ Agreement)'
  BY AgreementKept
<1>. QED
  BY <1>1, <1>2, PTL DEF AgreementSpec
=============================================================================
