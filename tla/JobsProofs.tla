------------------------------ MODULE JobsProofs ------------------------------
(***************************************************************************)
(* What the jobs of the CRS promise, for any number of jobs, clients,      *)
(* seeds, crashes and rows: invariants of Spec of MCJobs, part by part.    *)
(***************************************************************************)
EXTENDS MCJobs, FiniteSets, FiniteSetTheorems, SequenceTheorems,
        WellFoundedInduction, SumProofs, TLAPS

(***************************************************************************)
(* Coders of a harness (get_decoders, get_encoder of crs/app/app.py).      *)
(***************************************************************************)
\* The sizes of sets are those of FiniteSets.
LEMMA OnDemandSets ==
  \A S : (OnDemand!IsFiniteSet(S) <=> IsFiniteSet(S)) /\ OnDemand!Cardinality(S) = Cardinality(S)
    BY DEF Cardinality, OnDemand!Cardinality, IsFiniteSet, OnDemand!IsFiniteSet

Places ==
  {"start", "wantEncoder", "wantDecoder", "decoding", "encoding raw", "encoding python", "done"}

\* What the variables may hold.
CodersTypes ==
  /\ decoders \in Nat /\ encoders \in Seq(OnDemand!Types)
  /\ decLock \in CoderJobs \cup {None} /\ encLock \in [OnDemand!Types -> CoderJobs \cup {None}]
  /\ at \in [CoderJobs -> Places] /\ want \in [CoderJobs -> OnDemand!Types]

\* A job between MakeEncoder and Encoded.
Making(j) ==
  \/ at[j] = "wantDecoder"
  \/ at[j] = "encoding raw"
  \/ at[j] = "encoding python"
  \/ at[j] = "decoding" /\ j # "decoder"

\* Who holds a lock is where the lock is needed, and the other way round.
DecoderLockHeld ==
  /\ \A j \in CoderJobs : decLock = j => at[j] = "decoding"
  /\ \A j \in CoderJobs : at[j] = "decoding" => decLock = j

EncoderLocksHeld ==
  /\ \A j \in CoderJobs, t \in OnDemand!Types : encLock[t] = j => Making(j) /\ want[j] = t
  /\ \A j \in CoderJobs : Making(j) => encLock[want[j]] = j

\* Only an encoder of the python type needs a decoder; the job "decoder" wants no encoder.
PythonOnly ==
  /\ \A j \in CoderJobs : Making(j) /\ at[j] # "encoding raw" => want[j] = "python"
  /\ \A j \in CoderJobs \cap {"decoder"} : want[j] = "raw"

\* What the holder of a lock found missing is missing still.
StillMissing ==
  /\ \A j \in CoderJobs \ {"decoder"} : at[j] = "decoding" => decoders = 0
  /\ encLock["python"] \in FlipJobs => OnDemand!Encoders("python") = {}

CodersInv == CodersTypes /\ DecoderLockHeld /\ EncoderLocksHeld /\ PythonOnly /\ StillMissing

LEMMA CodersInit == ASSUME OnDemand!CodersAssumption, OnDemand!Init PROVE CodersInv
<1> USE DEF OnDemand!Init
<1>1. encoders \in Seq(OnDemand!Types) /\ decoders \in Nat
    OBVIOUS
<1>2. decLock \in CoderJobs \cup {None} /\ encLock \in [OnDemand!Types -> CoderJobs \cup {None}]
    OBVIOUS
<1>3. at \in [CoderJobs -> Places] /\ want \in [CoderJobs -> OnDemand!Types]
    BY DEF Places, OnDemand!Types, OnDemand!Fresh
<1>4. DecoderLockHeld /\ EncoderLocksHeld
    BY OnDemand!CodersAssumption DEF OnDemand!CodersAssumption, DecoderLockHeld,
       EncoderLocksHeld, Making
<1>5. PythonOnly
    BY DEF PythonOnly, Making, OnDemand!Fresh
<1>6. StillMissing
    BY DEF StillMissing, OnDemand!Encoders
<1> QED
    BY <1>1, <1>2, <1>3, <1>4, <1>5, <1>6 DEF CodersInv, CodersTypes

\* Who makes an encoder keeps its lock while nobody begins or ends to make one.
LEMMA EncoderLocksKept ==
  ASSUME EncoderLocksHeld, UNCHANGED encLock,
         \A j \in CoderJobs : /\ Making(j)' <=> Making(j)
                              /\ Making(j) => want'[j] = want[j]
  PROVE  EncoderLocksHeld'
<1>1. \A j \in CoderJobs, t \in OnDemand!Types : encLock'[t] = j => Making(j)' /\ want'[j] = t
    BY DEF EncoderLocksHeld
<1>2. \A j \in CoderJobs : Making(j)' => encLock'[want'[j]] = j
    BY DEF EncoderLocksHeld
<1> QED
    BY <1>1, <1>2 DEF EncoderLocksHeld

(***************************************************************************)
(* The invariant, action by action.                                        *)
(***************************************************************************)
LEMMA GenerateDecoderStep ==
  ASSUME OnDemand!CodersAssumption, CodersInv, OnDemand!GenerateDecoder
  PROVE  CodersInv'
<1> USE DEF CodersInv, OnDemand!GenerateDecoder, OnDemand!Move
<1>1. CodersTypes'
    BY DEF CodersTypes, Places
<1>2. DecoderLockHeld'
    BY OnDemand!CodersAssumption DEF DecoderLockHeld, CodersTypes, OnDemand!CodersAssumption
<1>3. EncoderLocksHeld'
  <2>1. \A i \in CoderJobs : (Making(i)' <=> Making(i)) /\ (Making(i) => want'[i] = want[i])
      BY OnDemand!CodersAssumption DEF Making, CodersTypes, OnDemand!CodersAssumption
  <2> QED
      BY <2>1, EncoderLocksKept
<1>4. PythonOnly'
    BY OnDemand!CodersAssumption DEF PythonOnly, Making, CodersTypes, OnDemand!CodersAssumption
<1>5. StillMissing'
    BY DEF StillMissing, OnDemand!Encoders, CodersTypes
<1> QED
    BY <1>1, <1>2, <1>3, <1>4, <1>5

LEMMA DecodePovStep ==
  ASSUME OnDemand!CodersAssumption, CodersInv, NEW j \in CoderJobs, OnDemand!DecodePov(j)
  PROVE  CodersInv'
<1> USE DEF CodersInv, OnDemand!DecodePov
<1>1. CodersTypes'
    BY DEF CodersTypes, Places, OnDemand!Types
<1>2. DecoderLockHeld'
    BY OnDemand!CodersAssumption DEF DecoderLockHeld, CodersTypes, OnDemand!CodersAssumption
<1>3. EncoderLocksHeld'
  <2>1. \A i \in CoderJobs : (Making(i)' <=> Making(i)) /\ (Making(i) => want'[i] = want[i])
      BY OnDemand!CodersAssumption DEF Making, CodersTypes, OnDemand!CodersAssumption
  <2> QED
      BY <2>1, EncoderLocksKept
<1>4. PythonOnly'
    BY OnDemand!CodersAssumption DEF PythonOnly, Making, CodersTypes, OnDemand!CodersAssumption
<1>5. StillMissing'
    BY DEF StillMissing, OnDemand!Encoders, CodersTypes
<1> QED
    BY <1>1, <1>2, <1>3, <1>4, <1>5

LEMMA StartEncoderStep ==
  ASSUME OnDemand!CodersAssumption, CodersInv, NEW j \in CoderJobs, OnDemand!StartEncoder(j)
  PROVE  CodersInv'
<1> USE DEF CodersInv, OnDemand!StartEncoder, OnDemand!Move
<1>1. CodersTypes'
    BY DEF CodersTypes, Places
<1>2. DecoderLockHeld'
    BY OnDemand!CodersAssumption DEF DecoderLockHeld, CodersTypes, OnDemand!CodersAssumption
<1>3. EncoderLocksHeld'
  <2>1. \A i \in CoderJobs : (Making(i)' <=> Making(i)) /\ (Making(i) => want'[i] = want[i])
      BY OnDemand!CodersAssumption DEF Making, CodersTypes, OnDemand!CodersAssumption
  <2> QED
      BY <2>1, EncoderLocksKept
<1>4. PythonOnly'
    BY OnDemand!CodersAssumption DEF PythonOnly, Making, CodersTypes, OnDemand!CodersAssumption
<1>5. StillMissing'
    BY DEF StillMissing, OnDemand!Encoders, CodersTypes
<1> QED
    BY <1>1, <1>2, <1>3, <1>4, <1>5

LEMMA TakeEncoderStep ==
  ASSUME OnDemand!CodersAssumption, CodersInv, NEW j \in CoderJobs, OnDemand!TakeEncoder(j)
  PROVE  CodersInv'
<1> USE DEF CodersInv, OnDemand!TakeEncoder, OnDemand!Has
<1>1. CodersTypes'
    BY DEF CodersTypes, Places
<1>2. DecoderLockHeld'
    BY OnDemand!CodersAssumption DEF DecoderLockHeld, CodersTypes, OnDemand!CodersAssumption
<1>3. EncoderLocksHeld'
  <2>1. \A i \in CoderJobs : (Making(i)' <=> Making(i)) /\ (Making(i) => want'[i] = want[i])
      BY OnDemand!CodersAssumption DEF Making, CodersTypes, OnDemand!CodersAssumption
  <2> QED
      BY <2>1, EncoderLocksKept
<1>4. PythonOnly'
    BY OnDemand!CodersAssumption DEF PythonOnly, Making, CodersTypes, OnDemand!CodersAssumption
<1>5. StillMissing'
    BY DEF StillMissing, OnDemand!Encoders, CodersTypes
<1> QED
    BY <1>1, <1>2, <1>3, <1>4, <1>5

LEMMA MakeEncoderStep ==
  ASSUME OnDemand!CodersAssumption, CodersInv, NEW j \in CoderJobs, OnDemand!MakeEncoder(j)
  PROVE  CodersInv'
<1> USE DEF CodersInv, OnDemand!MakeEncoder, OnDemand!Move
<1>1. CodersTypes'
    BY DEF CodersTypes, Places
<1>2. DecoderLockHeld'
    BY OnDemand!CodersAssumption DEF DecoderLockHeld, CodersTypes, OnDemand!CodersAssumption
<1>3. EncoderLocksHeld'
  <2>1. /\ encLock[want[j]] = None /\ want[j] \in OnDemand!Types /\ Making(j)' /\ ~ Making(j)
        /\ encLock' = [encLock EXCEPT ![want[j]] = j] /\ UNCHANGED want
        /\ \A i \in CoderJobs \ {j} : Making(i)' <=> Making(i)
      BY DEF Making, CodersTypes
  <2>2. \A i \in CoderJobs : encLock[want[j]] # i
      BY <2>1, OnDemand!CodersAssumption DEF OnDemand!CodersAssumption
  <2>3. \A i \in CoderJobs, t \in OnDemand!Types : encLock'[t] = i => Making(i)' /\ want'[i] = t
    <3> TAKE i \in CoderJobs, t \in OnDemand!Types
    <3>1. CASE t = want[j]
      <4>1. encLock'[t] = j /\ want'[j] = t
          BY <2>1, <3>1 DEF CodersTypes
      <4>2. CASE i = j
          BY <2>1, <4>1, <4>2
      <4> QED
          BY <4>1, <4>2
    <3>2. CASE t # want[j]
        BY <2>1, <3>2 DEF CodersTypes, EncoderLocksHeld
    <3> QED
        BY <3>1, <3>2
  <2>4. \A i \in CoderJobs : Making(i)' => encLock'[want'[i]] = i
    <3> TAKE i \in CoderJobs
    <3>1. CASE i = j
        BY <2>1, <3>1 DEF CodersTypes
    <3>2. CASE i # j /\ Making(i)'
      <4>1. encLock[want[i]] = i /\ want[i] # want[j]
          BY <2>1, <2>2, <3>2 DEF EncoderLocksHeld
      <4> QED
          BY <2>1, <4>1 DEF CodersTypes
    <3> QED
        BY <3>1, <3>2
  <2> QED
      BY <2>3, <2>4 DEF EncoderLocksHeld
<1>4. PythonOnly'
    BY OnDemand!CodersAssumption DEF PythonOnly, Making, CodersTypes, OnDemand!CodersAssumption
<1>5. StillMissing'
  <2>1. (at'[j] # "decoding") /\ \A i \in CoderJobs \ {j} : at'[i] = at[i]
      BY DEF CodersTypes
  <2>2. encLock'["python"] \in FlipJobs => OnDemand!Encoders("python") = {}
      BY DEF StillMissing, OnDemand!Suits, CodersTypes, OnDemand!Types
  <2> QED
      BY <2>1, <2>2 DEF StillMissing, OnDemand!Encoders
<1> QED
    BY <1>1, <1>2, <1>3, <1>4, <1>5

LEMMA GetDecoderStep ==
  ASSUME OnDemand!CodersAssumption, CodersInv, NEW j \in CoderJobs, OnDemand!GetDecoder(j)
  PROVE  CodersInv'
<1> USE DEF CodersInv, OnDemand!GetDecoder, OnDemand!Move
<1>0. j # "decoder"
    BY DEF PythonOnly, Making
<1>1. CodersTypes'
    BY DEF CodersTypes, Places
<1>2. DecoderLockHeld'
    BY OnDemand!CodersAssumption DEF DecoderLockHeld, CodersTypes, OnDemand!CodersAssumption
<1>3. EncoderLocksHeld'
  <2>1. \A i \in CoderJobs : (Making(i)' <=> Making(i)) /\ (Making(i) => want'[i] = want[i])
      BY <1>0 DEF Making, CodersTypes
  <2> QED
      BY <2>1, EncoderLocksKept
<1>4. PythonOnly'
    BY OnDemand!CodersAssumption DEF PythonOnly, Making, CodersTypes, OnDemand!CodersAssumption
<1>5. StillMissing'
  <2>1. at'[j] = "decoding" => ~ OnDemand!Present
      BY DEF CodersTypes
  <2>2. ~ OnDemand!Present => decoders = 0
      BY DEF OnDemand!Present, OnDemand!HasDecoders, CodersTypes
  <2>3. \A i \in CoderJobs \ {j} : at'[i] = at[i]
      BY DEF CodersTypes
  <2> QED
      BY <2>1, <2>2, <2>3 DEF StillMissing, OnDemand!Encoders
<1> QED
    BY <1>1, <1>2, <1>3, <1>4, <1>5

LEMMA DecodedStep ==
  ASSUME OnDemand!CodersAssumption, CodersInv, NEW j \in CoderJobs, OnDemand!Decoded(j)
  PROVE  CodersInv'
<1> USE DEF CodersInv
<1>1. \E p \in {"done", "encoding raw", "encoding python"} :
        at' = [at EXCEPT ![j] = p] /\ (p = "done" <=> j = "decoder")
    BY DEF OnDemand!Decoded, OnDemand!Move
<1>2. /\ at[j] = "decoding" /\ decLock' = None
      /\ want' = want /\ encoders' = encoders /\ encLock' = encLock
      /\ decoders' = decoders \/ decoders' = decoders + 1
    BY DEF OnDemand!Decoded, OnDemand!Move, OnDemand!AddDecoder
<1>3. /\ at' \in [CoderJobs -> Places] /\ at'[j] # "decoding"
      /\ \A i \in CoderJobs \ {j} : at'[i] = at[i]
      /\ \A i \in CoderJobs : Making(i)' <=> Making(i)
    BY <1>1, <1>2 DEF CodersTypes, Places, Making
<1>4. CodersTypes'
    BY <1>2, <1>3 DEF CodersTypes
<1>5. DecoderLockHeld'
    BY <1>2, <1>3, OnDemand!CodersAssumption DEF DecoderLockHeld, OnDemand!CodersAssumption
<1>6. EncoderLocksHeld'
    BY <1>2, <1>3, EncoderLocksKept
<1>7. PythonOnly'
    BY <1>2, <1>3 DEF PythonOnly, Making
<1>8. StillMissing'
  <2>1. \A i \in CoderJobs : at'[i] # "decoding"
      BY <1>2, <1>5, OnDemand!CodersAssumption DEF DecoderLockHeld, OnDemand!CodersAssumption
  <2> QED
      BY <1>2, <2>1 DEF StillMissing, OnDemand!Encoders
<1> QED
    BY <1>4, <1>5, <1>6, <1>7, <1>8

LEMMA EncodedStep ==
  ASSUME OnDemand!CodersAssumption, CodersInv, NEW j \in CoderJobs, OnDemand!Encoded(j)
  PROVE  CodersInv'
<1> USE DEF CodersInv
<1> DEFINE type == IF at[j] = "encoding raw" THEN "raw" ELSE "python"
<1>1. /\ at[j] \in {"encoding raw", "encoding python"}
      /\ type \in OnDemand!Types /\ encoders' = Append(encoders, type)
      /\ at' = [at EXCEPT ![j] = "done"] /\ UNCHANGED want
      /\ encLock' = [encLock EXCEPT ![want[j]] = None]
      /\ UNCHANGED <<decoders, decLock>>
    BY DEF OnDemand!Encoded, OnDemand!Has, OnDemand!Types, OnDemand!AddEncoder
<1>2. CodersTypes'
  <2> HIDE DEF type
  <2>1. encoders' \in Seq(OnDemand!Types)
      BY <1>1, AppendProperties DEF CodersTypes
  <2>2. at' \in [CoderJobs -> Places] /\ encLock' \in [OnDemand!Types -> CoderJobs \cup {None}]
      BY <1>1 DEF CodersTypes, Places
  <2> QED
      BY <1>1, <2>1, <2>2 DEF CodersTypes
<1>3. DecoderLockHeld'
    BY <1>1, OnDemand!CodersAssumption DEF DecoderLockHeld, CodersTypes, OnDemand!CodersAssumption
<1>4. EncoderLocksHeld'
  <2>1. encLock[want[j]] = j
      BY <1>1 DEF EncoderLocksHeld, Making
  <2>2. \A i \in CoderJobs, t \in OnDemand!Types : encLock'[t] = i => t # want[j] /\ encLock[t] = i /\ i # j
      BY <1>1, <2>1, OnDemand!CodersAssumption, ZenonT(40) DEF EncoderLocksHeld, CodersTypes,
         OnDemand!CodersAssumption
  <2>3. \A i \in CoderJobs \ {j} : at'[i] = at[i] /\ want'[i] = want[i] /\ (Making(i)' <=> Making(i))
      BY <1>1 DEF CodersTypes, Making
  <2>4. ~ Making(j)'
      BY <1>1 DEF CodersTypes, Making
  <2>5. \A i \in CoderJobs \ {j} : Making(i) => encLock[want[i]] = i /\ want[i] # want[j]
      BY <2>1 DEF EncoderLocksHeld
  <2>6. \A i \in CoderJobs \ {j} : Making(i) => encLock'[want[i]] = i
      BY <1>1, <2>5 DEF CodersTypes
  <2>7. \A i \in CoderJobs, t \in OnDemand!Types : encLock'[t] = i => Making(i)' /\ want'[i] = t
      BY <2>2, <2>3 DEF EncoderLocksHeld
  <2>8. \A i \in CoderJobs : Making(i)' => encLock'[want'[i]] = i
      BY <2>3, <2>4, <2>6
  <2> QED
      BY <2>7, <2>8 DEF EncoderLocksHeld
<1>5. PythonOnly'
    BY <1>1 DEF PythonOnly, Making, CodersTypes
<1>6. StillMissing'
  <2>1. \A i \in CoderJobs \ {"decoder"} : at'[i] = "decoding" => decoders' = 0
      BY <1>1 DEF StillMissing, CodersTypes
  <2>2. CASE want[j] = "python"
      BY <1>1, <2>2, OnDemand!CodersAssumption, <2>1 DEF StillMissing, CodersTypes,
         OnDemand!Types, OnDemand!CodersAssumption
  <2>3. CASE want[j] # "python"
    <3>1. type = "raw"
        BY <1>1, <2>3 DEF PythonOnly, Making
    <3> HIDE DEF type
    <3>2. encoders \in Seq(OnDemand!Types) /\ "raw" \in OnDemand!Types /\ encoders' = Append(encoders, "raw")
        BY <1>1, <3>1 DEF CodersTypes
    <3>3. /\ \A i \in 1..Len(encoders) : encoders'[i] = encoders[i]
          /\ encoders'[Len(encoders) + 1] = "raw" /\ Len(encoders') = Len(encoders) + 1
        BY <3>2, AppendProperties
    <3>4. /\ DOMAIN encoders = 1..Len(encoders) /\ Len(encoders) \in Nat
          /\ DOMAIN encoders' = 1..Len(encoders')
        BY <1>2, LenProperties DEF CodersTypes
    <3>5. OnDemand!Encoders("python")' \subseteq OnDemand!Encoders("python")
        BY <3>3, <3>4 DEF OnDemand!Encoders
    <3>6. encLock'["python"] = encLock["python"]
        BY <1>1, <2>3 DEF CodersTypes, OnDemand!Types
    <3> QED
        BY <3>5, <3>6, <2>1 DEF StillMissing
  <2> QED
      BY <2>2, <2>3
<1> QED
    BY <1>2, <1>3, <1>4, <1>5, <1>6

LEMMA TriedAgainStep ==
  ASSUME OnDemand!CodersAssumption, CodersInv, NEW j \in CoderJobs, OnDemand!TriedAgain(j)
  PROVE  CodersInv'
<1> USE DEF CodersInv
<1>1. PICK p \in {"start", "done"}, type \in OnDemand!Types :
        /\ at' = [at EXCEPT ![j] = p]
        /\ want' = [want EXCEPT ![j] = type] /\ (j = "decoder" => type = "raw")
  <2>1. CASE OnDemand!Move(j, "done")
      BY <2>1 DEF OnDemand!Move, CodersTypes, PythonOnly
  <2>2. CASE at' = [at EXCEPT ![j] = "start"] /\ want' = [want EXCEPT ![j] = OnDemand!Fresh(j)]
      BY <2>2 DEF OnDemand!Fresh, OnDemand!Types
  <2> QED
      BY <2>1, <2>2 DEF OnDemand!TriedAgain
<1>2. /\ decLock' = IF decLock = j THEN None ELSE decLock
      /\ encLock' = [t \in OnDemand!Types |-> IF encLock[t] = j THEN None ELSE encLock[t]]
      /\ UNCHANGED <<decoders, encoders>>
    BY DEF OnDemand!TriedAgain, OnDemand!Unlocked
<1>3. /\ ~ Making(j)' /\ at'[j] # "decoding"
      /\ \A i \in CoderJobs \ {j} : at'[i] = at[i] /\ want'[i] = want[i] /\ (Making(i)' <=> Making(i))
    BY <1>1 DEF CodersTypes, Making
<1>4. CodersTypes'
    BY <1>1, <1>2 DEF CodersTypes, Places
<1>5. DecoderLockHeld'
    BY <1>2, <1>3, OnDemand!CodersAssumption DEF DecoderLockHeld, CodersTypes,
       OnDemand!CodersAssumption
<1>6. EncoderLocksHeld'
    BY <1>2, <1>3, OnDemand!CodersAssumption DEF EncoderLocksHeld, CodersTypes,
       OnDemand!CodersAssumption
<1>7. PythonOnly'
    BY <1>1, <1>3 DEF PythonOnly, CodersTypes
<1>8. StillMissing'
    BY <1>2, <1>3, OnDemand!CodersAssumption DEF StillMissing, OnDemand!Encoders, CodersTypes,
       OnDemand!Types, OnDemand!CodersAssumption
<1> QED
    BY <1>4, <1>5, <1>6, <1>7, <1>8

LEMMA CodersNext ==
  ASSUME OnDemand!CodersAssumption, CodersInv, [OnDemand!Next]_(OnDemand!codersVars)
  PROVE  CodersInv'
<1>1. CASE UNCHANGED OnDemand!codersVars
  <2> USE <1>1 DEF OnDemand!codersVars, OnDemand!jobVars, CodersInv
  <2>1. CodersTypes' /\ DecoderLockHeld' /\ PythonOnly'
      BY DEF CodersTypes, DecoderLockHeld, PythonOnly, Making
  <2>2. EncoderLocksHeld' /\ StillMissing'
      BY DEF EncoderLocksHeld, Making, StillMissing, OnDemand!Encoders
  <2> QED
      BY <2>1, <2>2
<1> QED
    BY <1>1, GenerateDecoderStep, DecodePovStep, StartEncoderStep, TakeEncoderStep,
       MakeEncoderStep,
       GetDecoderStep, DecodedStep, EncodedStep, TriedAgainStep DEF OnDemand!Next

\* What a flip has and may hope for, and what the encoders of the raw type come from.
FlipIsServed(j) ==
  /\ at[j] # "start" /\ want[j] = "python" => decoders # 0
  /\ at[j] # "decoding" /\ (at[j] = "encoding raw" => want[j] = "raw")
  /\ at[j] = "done" =>
       (got[j] = want[j] /\ OnDemand!Encoders(want[j]) # {}) \/ (got[j] = None /\ tries[j] = 1)
RawIsMissing ==
  encLock["raw"] \in FlipJobs =>
    OnDemand!Encoders("raw") = {} \/ \E j \in CoderJobs : OnDemand!WasForPython(j)
ServedInv ==
  /\ got \in [CoderJobs -> OnDemand!Types \cup {None}] /\ tries \in [CoderJobs -> Int]
  /\ \A j \in CoderJobs : got[j] # None => at[j] = "done"
  /\ \A j \in FlipJobs : FlipIsServed(j)
  /\ RawIsMissing

LEMMA ServedInit == ASSUME OnDemand!CodersAssumption, OnDemand!Init PROVE ServedInv
<1>1. /\ got = [j \in CoderJobs |-> None] /\ at = [j \in CoderJobs |-> "start"]
      /\ encoders = <<>> /\ FlipJobs \subseteq CoderJobs /\ tries \in [CoderJobs -> Int]
    BY DEF OnDemand!Init, OnDemand!CodersAssumption
<1>2. \A j \in FlipJobs : FlipIsServed(j)
    BY <1>1 DEF FlipIsServed
<1>3. OnDemand!Encoders("raw") = {}
    BY <1>1 DEF OnDemand!Encoders
<1> QED
    BY <1>1, <1>2, <1>3 DEF ServedInv, RawIsMissing

\* A step of one job that adds to the tables and serves that job leaves all served.
LEMMA ServedKept ==
  ASSUME OnDemand!CodersAssumption, CodersInv, ServedInv, NEW j \in CoderJobs,
         at[j] # "done", got' \in [CoderJobs -> OnDemand!Types \cup {None}],
         got'[j] # None => at'[j] = "done", tries' \in [CoderJobs -> Int],
         decoders # 0 => decoders' # 0,
         \A t \in OnDemand!Types : OnDemand!Encoders(t) \subseteq OnDemand!Encoders(t)',
         \A i \in CoderJobs \ {j} : /\ at'[i] = at[i] /\ want'[i] = want[i]
                                    /\ got'[i] = got[i] /\ tries'[i] = tries[i],
         j \in FlipJobs => FlipIsServed(j)',
         encLock'["raw"] \in FlipJobs =>
           \/ OnDemand!Encoders("raw")' = {} \/ OnDemand!WasForPython(j)'
           \/ encLock["raw"] \in FlipJobs /\ OnDemand!Encoders("raw")' = OnDemand!Encoders("raw")
  PROVE  ServedInv'
<1>1. ASSUME NEW i \in FlipJobs PROVE FlipIsServed(i)'
  <2>1. CASE i = j
      BY <2>1
  <2>2. CASE i # j
    <3>1. /\ i \in CoderJobs /\ FlipIsServed(i) /\ want[i] \in OnDemand!Types
          /\ at'[i] = at[i] /\ want'[i] = want[i] /\ got'[i] = got[i] /\ tries'[i] = tries[i]
        BY <2>2 DEF ServedInv, OnDemand!CodersAssumption, CodersInv, CodersTypes
    <3>2. PICK t \in OnDemand!Types : t = want[i] /\ t = want'[i]
        BY <3>1
    <3>3. OnDemand!Encoders(t) # {} => OnDemand!Encoders(t)' # {}
        OBVIOUS
    <3>4. OnDemand!Encoders(want[i]) # {} => OnDemand!Encoders(want[i])' # {}
        BY <3>2, <3>3 DEF OnDemand!Encoders
    <3> QED
        BY <3>1, <3>4 DEF FlipIsServed
  <2> QED
      BY <2>1, <2>2
<1>2. \A i \in CoderJobs : OnDemand!WasForPython(i) => i # j
  <2>1. None # "raw"
      BY DEF OnDemand!CodersAssumption
  <2> QED
      BY <2>1 DEF ServedInv, OnDemand!WasForPython
<1>3. \A i \in CoderJobs : OnDemand!WasForPython(i) => OnDemand!WasForPython(i)'
    BY <1>2 DEF OnDemand!WasForPython
<1>4. RawIsMissing'
    BY <1>3 DEF ServedInv, RawIsMissing
<1>5. \A i \in CoderJobs : got'[i] # None => at'[i] = "done"
    BY DEF ServedInv
<1> QED
    BY <1>1, <1>4, <1>5 DEF ServedInv

LEMMA ServedNext ==
  ASSUME OnDemand!CodersAssumption, CodersInv, ServedInv, [OnDemand!Next]_(OnDemand!codersVars)
  PROVE  ServedInv'
<1> USE DEF OnDemand!Move
<1>0. /\ FlipJobs \subseteq CoderJobs \ {"decoder"} /\ None \notin CoderJobs \cup OnDemand!Types
      /\ \A i \in CoderJobs : got[i] # None => at[i] = "done"
    BY DEF OnDemand!CodersAssumption, OnDemand!Types, ServedInv
<1>1. CASE UNCHANGED OnDemand!codersVars
    BY <1>1 DEF OnDemand!codersVars, OnDemand!jobVars, ServedInv, FlipIsServed, RawIsMissing,
       OnDemand!Encoders, OnDemand!WasForPython
<1>2. CASE OnDemand!GenerateDecoder
  <2> DEFINE j == "decoder"
  <2>1. /\ j \in CoderJobs /\ at[j] = "start" /\ at' = [at EXCEPT ![j] = "decoding"]
        /\ UNCHANGED <<want, got, tries, decoders, encoders, encLock>> /\ j \notin FlipJobs
      BY <1>0, <1>2 DEF OnDemand!GenerateDecoder
  <2> HIDE DEF j
  <2> QED
      BY <1>0, <2>1, ServedKept DEF ServedInv, OnDemand!Encoders, CodersInv, CodersTypes
<1>3. ASSUME NEW j \in CoderJobs, OnDemand!DecodePov(j) PROVE ServedInv'
  <2>1. /\ at[j] = "start" /\ at' = [at EXCEPT ![j] = "wantEncoder"]
        /\ want' = [want EXCEPT ![j] = IF decoders > 0 THEN "python" ELSE "raw"]
        /\ UNCHANGED <<got, tries, decoders, encoders, encLock>>
      BY <1>3 DEF OnDemand!DecodePov, OnDemand!HasDecoders
  <2>2. FlipIsServed(j)'
      BY <2>1 DEF FlipIsServed, CodersInv, CodersTypes
  <2> QED
      BY <1>0, <2>1, <2>2, ServedKept DEF ServedInv, OnDemand!Encoders, CodersInv, CodersTypes
<1>4. ASSUME NEW j \in CoderJobs, OnDemand!StartEncoder(j) PROVE ServedInv'
  <2>1. /\ at[j] = "start" /\ at' = [at EXCEPT ![j] = "wantEncoder"] /\ j \notin FlipJobs
        /\ UNCHANGED <<want, got, tries, decoders, encoders, encLock>>
      BY <1>4 DEF OnDemand!StartEncoder
  <2> QED
      BY <1>0, <2>1, ServedKept DEF ServedInv, OnDemand!Encoders, CodersInv, CodersTypes
<1>5. ASSUME NEW j \in CoderJobs, OnDemand!TakeEncoder(j) PROVE ServedInv'
  <2>1. /\ at[j] = "wantEncoder" /\ at' = [at EXCEPT ![j] = "done"]
        /\ got' = [got EXCEPT ![j] = want[j]] /\ OnDemand!Encoders(want[j]) # {}
        /\ UNCHANGED <<want, tries, decoders, encoders, encLock>> /\ j \in FlipJobs
      BY <1>5 DEF OnDemand!TakeEncoder, OnDemand!Has, OnDemand!Suits
  <2>2. FlipIsServed(j)'
    <3>1. FlipIsServed(j) /\ OnDemand!Encoders(want[j])' # {}
        BY <2>1 DEF ServedInv, OnDemand!Encoders
    <3>2. /\ at'[j] = "done" /\ got'[j] = want'[j]
          /\ at'[j] # "decoding" /\ at'[j] # "encoding raw"
        BY <2>1 DEF CodersInv, CodersTypes, ServedInv
    <3>3. want'[j] = "python" => decoders' # 0
        BY <2>1, <3>1 DEF FlipIsServed
    <3> QED
        BY <3>1, <3>2, <3>3, Zenon DEF FlipIsServed
  <2>3. got' \in [CoderJobs -> OnDemand!Types \cup {None}]
      BY <2>1 DEF CodersInv, CodersTypes, ServedInv
  <2> QED
      BY <1>0, <2>1, <2>2, <2>3, ServedKept DEF ServedInv, OnDemand!Encoders, CodersInv, CodersTypes
<1>6. ASSUME NEW j \in CoderJobs, OnDemand!MakeEncoder(j) PROVE ServedInv'
  <2>1. /\ at[j] = "wantEncoder" /\ want[j] \in OnDemand!Types
        /\ at' = [at EXCEPT ![j] = IF want[j] = "python" THEN "wantDecoder" ELSE "encoding raw"]
        /\ encLock' = [encLock EXCEPT ![want[j]] = j]
        /\ UNCHANGED <<want, got, tries, decoders, encoders>>
      BY <1>6 DEF OnDemand!MakeEncoder, CodersInv, CodersTypes
  <2>2. j \in FlipJobs => FlipIsServed(j)'
      BY <2>1 DEF FlipIsServed, CodersInv, CodersTypes, ServedInv, OnDemand!Encoders,
         OnDemand!Types
  <2>3. encLock'["raw"] \in FlipJobs =>
          \/ OnDemand!Encoders("raw")' = {}
          \/ encLock["raw"] \in FlipJobs /\ OnDemand!Encoders("raw")' = OnDemand!Encoders("raw")
    <3>1. OnDemand!Encoders("raw")' = OnDemand!Encoders("raw")
        BY <2>1 DEF OnDemand!Encoders
    <3>2. CASE want[j] = "raw" /\ j \in FlipJobs
        BY <1>6, <3>1, <3>2 DEF OnDemand!MakeEncoder, OnDemand!Suits
    <3>3. CASE want[j] # "raw" \/ j \notin FlipJobs
        BY <2>1, <3>1, <3>3 DEF CodersInv, CodersTypes, OnDemand!Types
    <3> QED
        BY <3>2, <3>3
  <2> QED
      BY <1>0, <2>1, <2>2, <2>3, ServedKept DEF ServedInv, OnDemand!Encoders, CodersInv, CodersTypes
<1>7. ASSUME NEW j \in CoderJobs, OnDemand!GetDecoder(j) PROVE ServedInv'
  <2>1. /\ at[j] = "wantDecoder" /\ want[j] = "python"
        /\ at' = [at EXCEPT ![j] = IF decoders > 0 THEN "encoding python" ELSE "decoding"]
        /\ UNCHANGED <<want, got, tries, decoders, encoders, encLock>> /\ decoders \in Nat
      BY <1>7 DEF OnDemand!GetDecoder, OnDemand!Present, OnDemand!HasDecoders, CodersInv,
         PythonOnly, Making, CodersTypes
  <2>2. j \in FlipJobs => FlipIsServed(j)'
    <3> SUFFICES ASSUME j \in FlipJobs PROVE FlipIsServed(j)'
        OBVIOUS
    <3>1. FlipIsServed(j)
        BY DEF ServedInv
    <3>4. at[j] # "start" /\ want[j] = "python" => decoders # 0
        BY <3>1, Zenon DEF FlipIsServed
    <3>5. at[j] # "start" /\ want[j] = "python" /\ decoders \in Nat
        BY <2>1
    <3>2. decoders # 0 /\ decoders > 0
        BY <3>4, <3>5
    <3>6. at' = [at EXCEPT ![j] = "encoding python"] /\ decoders' # 0
        BY <2>1, <3>2
    <3>3. /\ at'[j] = "encoding python" /\ decoders' # 0
          /\ at'[j] # "decoding" /\ at'[j] # "encoding raw" /\ at'[j] # "done"
        BY <3>6 DEF CodersInv, CodersTypes
    <3> QED
        BY <3>3, Zenon DEF FlipIsServed
  <2> QED
      BY <1>0, <2>1, <2>2, ServedKept DEF ServedInv, OnDemand!Encoders, CodersInv, CodersTypes
<1>8. ASSUME NEW j \in CoderJobs, OnDemand!Decoded(j) PROVE ServedInv'
  <2>1. /\ at[j] = "decoding" /\ decoders \in Nat
        /\ decoders' = decoders \/ decoders' = decoders + 1
        /\ UNCHANGED <<want, got, tries, encoders, encLock>>
      BY <1>8 DEF OnDemand!Decoded, OnDemand!AddDecoder, CodersInv, CodersTypes
  <2>2. \A i \in CoderJobs \ {j} : at'[i] = at[i]
      BY <1>8 DEF OnDemand!Decoded, CodersInv, CodersTypes
  <2>3. j \notin FlipJobs /\ (decoders # 0 => decoders' # 0)
    <3>1. \A i \in FlipJobs : at[i] # "decoding"
        BY DEF ServedInv, FlipIsServed
    <3>2. decoders # 0 => decoders' # 0
        BY <2>1
    <3> QED
        BY <2>1, <3>1, <3>2
  <2>4. \A t \in OnDemand!Types : OnDemand!Encoders(t) = OnDemand!Encoders(t)'
      BY <2>1 DEF OnDemand!Encoders
  <2>5. /\ got[j] = None /\ got'[j] = None /\ at[j] # "done"
        /\ got' \in [CoderJobs -> OnDemand!Types \cup {None}] /\ tries' \in [CoderJobs -> Int]
        /\ \A i \in CoderJobs \ {j} : want'[i] = want[i] /\ got'[i] = got[i] /\ tries'[i] = tries[i]
      BY <1>0, <2>1 DEF ServedInv
  <2>6. OnDemand!Encoders("raw")' = OnDemand!Encoders("raw") /\ encLock' = encLock
      BY <2>1 DEF OnDemand!Encoders
  <2> QED
      BY <2>2, <2>3, <2>4, <2>5, <2>6, ServedKept
<1>9. ASSUME NEW j \in CoderJobs, OnDemand!Encoded(j) PROVE ServedInv'
  <2>1. PICK type \in OnDemand!Types :
          /\ at[j] = IF type = "raw" THEN "encoding raw" ELSE "encoding python"
          /\ encoders' = Append(encoders, type)
          /\ at' = [at EXCEPT ![j] = "done"] /\ got' = [got EXCEPT ![j] = type]
          /\ encLock' = [encLock EXCEPT ![want[j]] = None]
          /\ UNCHANGED <<want, tries, decoders>>
      BY <1>9 DEF OnDemand!Encoded, OnDemand!Has, OnDemand!Types, OnDemand!AddEncoder
  <2>2. encoders \in Seq(OnDemand!Types) /\ want[j] \in OnDemand!Types
      BY DEF CodersInv, CodersTypes
  <2>3. /\ \A i \in 1..Len(encoders) : encoders'[i] = encoders[i]
        /\ encoders'[Len(encoders) + 1] = type /\ Len(encoders') = Len(encoders) + 1
        /\ DOMAIN encoders = 1..Len(encoders) /\ Len(encoders) \in Nat
        /\ DOMAIN encoders' = 1..Len(encoders')
    <3>0. /\ Append(encoders, type) \in Seq(OnDemand!Types)
          /\ Len(Append(encoders, type)) = Len(encoders) + 1
          /\ \A i \in 1..Len(encoders) : Append(encoders, type)[i] = encoders[i]
          /\ Append(encoders, type)[Len(encoders) + 1] = type
        BY <2>2, AppendProperties
    <3>1. /\ encoders' \in Seq(OnDemand!Types) /\ Len(encoders') = Len(encoders) + 1
          /\ \A i \in 1..Len(encoders) : encoders'[i] = encoders[i]
          /\ encoders'[Len(encoders) + 1] = type
        BY <2>1, <3>0
    <3> QED
        BY <2>2, <3>1, LenProperties
  <2>4. \A t \in OnDemand!Types : OnDemand!Encoders(t) \subseteq OnDemand!Encoders(t)'
      BY <2>3 DEF OnDemand!Encoders
  <2>5. OnDemand!Encoders(type)' # {}
      BY <2>3 DEF OnDemand!Encoders
  <2>6. at'[j] = "done" /\ got'[j] = type /\ want'[j] = want[j] /\ got' \in [CoderJobs -> OnDemand!Types \cup {None}]
      BY <2>1 DEF ServedInv, CodersInv, CodersTypes
  <2>7. type = "python" => want[j] = "python"
      BY <2>1 DEF CodersInv, PythonOnly, Making, OnDemand!Types
  <2>8. j \in FlipJobs => FlipIsServed(j)'
    <3> SUFFICES ASSUME j \in FlipJobs PROVE FlipIsServed(j)'
        OBVIOUS
    <3>1. FlipIsServed(j)
        BY DEF ServedInv
    <3>2. type = want[j]
      <4>1. at[j] = "encoding raw" => want[j] = "raw"
          BY <3>1 DEF FlipIsServed
      <4>2. type = "raw" => want[j] = "raw"
          BY <2>1, <4>1
      <4> QED
          BY <2>7, <4>2 DEF OnDemand!Types
    <3>3. OnDemand!Encoders(want[j])' # {}
        BY <2>5, <2>6, <3>2 DEF OnDemand!Encoders
    <3>4. want[j] = "python" => decoders' # 0
        BY <2>1, <3>1 DEF FlipIsServed
    <3>5. /\ want'[j] = want[j] /\ got'[j] = want'[j]
          /\ at'[j] # "decoding" /\ at'[j] # "encoding raw"
        BY <2>6, <3>2
    <3> QED
        BY <2>6, <3>3, <3>4, <3>5, Zenon DEF FlipIsServed
  <2>9. encLock'["raw"] \in FlipJobs => encLock["raw"] \in FlipJobs /\ want[j] = "python"
      BY <1>0, <2>1, <2>2 DEF CodersInv, CodersTypes, OnDemand!Types
  <2>10. type = "python" => OnDemand!Encoders("raw")' = OnDemand!Encoders("raw")
      BY <2>3 DEF OnDemand!Encoders
  <2>11. type = "raw" /\ want[j] = "python" => OnDemand!WasForPython(j)'
      BY <2>6 DEF OnDemand!WasForPython
  <2>12. type = "raw" \/ type = "python"
      BY DEF OnDemand!Types
  <2>14. tries' \in [CoderJobs -> Int]
      BY <2>1 DEF ServedInv
  <2>13. /\ at[j] # "done" /\ decoders' = decoders
         /\ \A i \in CoderJobs \ {j} : /\ at'[i] = at[i] /\ want'[i] = want[i]
                                       /\ got'[i] = got[i] /\ tries'[i] = tries[i]
      BY <2>1 DEF ServedInv, CodersInv, CodersTypes
  <2> QED
      BY <2>4, <2>6, <2>8, <2>9, <2>10, <2>11, <2>12, <2>13, <2>14, ServedKept
<1>10. ASSUME NEW j \in CoderJobs, OnDemand!TriedAgain(j) PROVE ServedInv'
  <2>1. /\ at[j] # "start" /\ at[j] # "done" /\ got[j] = None
        /\ UNCHANGED <<got, decoders, encoders>>
      BY <1>0, <1>10 DEF OnDemand!TriedAgain, OnDemand!Busy
  <2>2. \/ /\ tries[j] = 1 /\ at' = [at EXCEPT ![j] = "done"] /\ UNCHANGED <<want, tries>>
        \/ /\ at' = [at EXCEPT ![j] = "start"] /\ want' = [want EXCEPT ![j] = OnDemand!Fresh(j)]
           /\ tries' = [tries EXCEPT ![j] = @ - 1]
      BY <1>10 DEF OnDemand!TriedAgain
  <2>3. j \in FlipJobs => FlipIsServed(j)'
    <3>1. CASE at' = [at EXCEPT ![j] = "start"]
        BY <3>1 DEF FlipIsServed, CodersInv, CodersTypes
    <3>2. CASE tries[j] = 1 /\ at' = [at EXCEPT ![j] = "done"] /\ UNCHANGED <<want, tries>>
        BY <2>1, <3>2 DEF FlipIsServed, CodersInv, CodersTypes, ServedInv
    <3> QED
        BY <2>2, <3>1, <3>2
  <2>4. \A i \in CoderJobs \ {j} : /\ at'[i] = at[i] /\ want'[i] = want[i]
                                   /\ got'[i] = got[i] /\ tries'[i] = tries[i]
    <3>1. \A i \in CoderJobs \ {j} : at'[i] = at[i] /\ want'[i] = want[i]
        BY <2>2 DEF CodersInv, CodersTypes
    <3>2. \A i \in CoderJobs \ {j} : tries'[i] = tries[i]
        BY <2>2 DEF ServedInv
    <3> QED
        BY <2>1, <3>1, <3>2
  <2>5. encLock'["raw"] \in FlipJobs => encLock["raw"] \in FlipJobs
      BY <1>0, <1>10 DEF OnDemand!TriedAgain, OnDemand!Unlocked, OnDemand!Types
  <2>6. \A t \in OnDemand!Types \cup {"raw"} : OnDemand!Encoders(t) = OnDemand!Encoders(t)'
      BY <2>1 DEF OnDemand!Encoders
  <2>7. got' \in [CoderJobs -> OnDemand!Types \cup {None}] /\ tries' \in [CoderJobs -> Int]
      BY <2>1, <2>2 DEF ServedInv
  <2> QED
      BY <2>1, <2>3, <2>4, <2>5, <2>6, <2>7, ServedKept
<1> QED
    BY <1>1, <1>2, <1>3, <1>4, <1>5, <1>6, <1>7, <1>8, <1>9, <1>10 DEF OnDemand!Next

LEMMA CodersInvImplies ==
  ASSUME OnDemand!CodersAssumption, CodersInv, ServedInv PROVE OnDemand!OnDemandOnce
<1> DEFINE decoding == {j \in CoderJobs : at[j] = "decoding"}
<1>1. decoding \subseteq {decLock}
    BY DEF CodersInv, DecoderLockHeld
<1>2. OnDemand!IsFiniteSet({decLock}) /\ OnDemand!Cardinality({decLock}) = 1
    BY FS_Singleton, OnDemandSets
<1>3. OnDemand!Cardinality(decoding) <= 1
    BY <1>1, <1>2, FS_Subset, OnDemandSets
<1>4. \A j \in CoderJobs \ {"decoder"} : at[j] = "decoding" => decoders = 0
    BY DEF CodersInv, StillMissing
<1>5. encLock["python"] \in FlipJobs => OnDemand!Encoders("python") = {}
    BY DEF CodersInv, StillMissing
<1>6. OnDemand!MadeWhenMissing
    BY <1>3, <1>4, <1>5 DEF OnDemand!MadeWhenMissing, ServedInv, RawIsMissing
<1>7. OnDemand!AskersAreServed
    BY DEF OnDemand!AskersAreServed, ServedInv, FlipIsServed
<1> QED
    BY <1>6, <1>7 DEF OnDemand!OnDemandOnce

(***************************************************************************)
(* Background workers (launch_bgworkers, wait_for_bgworker of crs/app/app.py).*)
(***************************************************************************)
IsJob(r) == r = [state |-> r.state, task |-> r.task, event |-> r.event, fails |-> r.fails]

\* What the variables may hold.
WorkersTypes ==
  /\ waiter = [j \in Workers!Jobs |-> waiter[j]] /\ \A j \in Workers!Jobs : IsJob(waiter[j])
  /\ task \in Nat /\ events \in [1..Workers!MaxTasks -> Nat]
  /\ made \in [tasks : Nat, events : Nat]
  /\ timeouts \in Nat /\ evictions \in Nat
  /\ restarts \in Nat /\ restarts <= MaxRestarts

\* A Task is made for each start of the program, and is the only key of the workers.
OneTask ==
  /\ made.tasks <= restarts + (IF task = 0 THEN 0 ELSE 1)
  /\ task <= made.tasks
  /\ launch \in {0, task}
  /\ workers \subseteq {task} \ {0}

\* Every waiter has the event that is in the table.
HasEvent(j) ==
  waiter[j].state = "waiting" =>
    /\ waiter[j].task = task /\ task # 0 /\ workers = {}
    /\ waiter[j].event = events[task] /\ events[task] # 0

InTime == timeouts = 0 /\ evictions = 0
WorkersInv == WorkersTypes /\ (InTime => OneTask /\ \A j \in Workers!Jobs : HasEvent(j))

-----------------------------------------------------------------------------
Retried(state, n) == [Workers!New(state) EXCEPT !.fails = n]

LEMMA FreshJob ==
  ASSUME NEW state, NEW n
  PROVE  /\ IsJob(Workers!New(state)) /\ Workers!New(state).state = state
         /\ IsJob(Retried(state, n)) /\ Retried(state, n).state = state
<1>1. Workers!New(state) = [state |-> state, task |-> 0, event |-> 0, fails |-> 0]
    BY DEF Workers!New
<1>2. Retried(state, n) = [state |-> state, task |-> 0, event |-> 0, fails |-> n]
    BY <1>1 DEF Retried
<1> QED
    BY <1>1, <1>2 DEF IsJob

LEMMA WorkersInit == ASSUME Workers!BackgroundAssumption, Workers!Init PROVE WorkersInv
<1>1. WorkersTypes
    BY FreshJob DEF Workers!BackgroundAssumption, Workers!Init, WorkersTypes, Workers!MaxTasks
<1>2. OneTask
    BY DEF Workers!Init, OneTask
<1>3. \A j \in Workers!Jobs : HasEvent(j)
    BY FreshJob DEF Workers!Init, HasEvent
<1> QED
    BY <1>1, <1>2, <1>3 DEF WorkersInv

\* The Task of the cache, or a new one, has a place in the table.
LEMMA TaskHasPlace ==
  ASSUME Workers!BackgroundAssumption, WorkersInv, InTime
  PROVE  /\ Workers!Task \in 1..Workers!MaxTasks /\ Workers!MadeTask \in Nat
         /\ Workers!Task <= Workers!MadeTask /\ Workers!MadeTask <= restarts + 1
  BY DEF Workers!BackgroundAssumption, WorkersInv, WorkersTypes, OneTask, Workers!Task,
     Workers!MadeTask, Workers!MaxTasks

\* Steps that change neither the Task, the table nor the workers, and leave no new waiter.
LEMMA JobSteps ==
  ASSUME WorkersInv, UNCHANGED <<task, workers, events, made, evictions, timeouts, restarts,
       launch>>,
         waiter' = [j \in Workers!Jobs |-> waiter'[j]],
         \A j \in Workers!Jobs : IsJob(waiter'[j]) /\ (waiter'[j] = waiter[j] \/ waiter'[j].state # "waiting")
  PROVE  WorkersInv'
<1>1. WorkersTypes'
    BY DEF WorkersInv, WorkersTypes
<1>2. OneTask => OneTask'
    BY DEF OneTask
<1>3. ASSUME NEW j \in Workers!Jobs, HasEvent(j) PROVE HasEvent(j)'
    BY <1>3 DEF HasEvent
<1> QED
    BY <1>1, <1>2, <1>3 DEF WorkersInv, InTime

\* Steps of the jobs.
LEMMA SubmitFuzzersStep == ASSUME WorkersInv, Workers!SubmitFuzzers PROVE WorkersInv'
<1>1. /\ waiter' = [waiter EXCEPT !["fuzzers"] = Workers!New("queued")]
      /\ UNCHANGED <<task, workers, events, made, evictions, timeouts, restarts, launch>>
    BY DEF Workers!SubmitFuzzers
<1>2. /\ waiter' = [j \in Workers!Jobs |-> waiter'[j]]
      /\ \A j \in Workers!Jobs : IsJob(waiter'[j]) /\ (waiter'[j] = waiter[j] \/ waiter'[j].state # "waiting")
    BY <1>1, FreshJob DEF WorkersInv, WorkersTypes
<1> QED
    BY <1>1, <1>2, JobSteps

LEMMA AddSeedEndsStep ==
  ASSUME WorkersInv, NEW j \in Workers!Jobs, Workers!AddSeed(j) \/ Workers!Ends(j)
  PROVE  WorkersInv'
<1>1. PICK s : /\ s # "waiting" /\ waiter' = [waiter EXCEPT ![j] = Workers!New(s)]
               /\ UNCHANGED <<task, workers, events, made, evictions, timeouts, restarts, launch>>
    BY DEF Workers!AddSeed, Workers!Ends
<1>2. /\ waiter' = [k \in Workers!Jobs |-> waiter'[k]]
      /\ \A k \in Workers!Jobs : IsJob(waiter'[k]) /\ (waiter'[k] = waiter[k] \/ waiter'[k].state # "waiting")
    BY <1>1, FreshJob DEF WorkersInv, WorkersTypes
<1> QED
    BY <1>1, <1>2, JobSteps

\* A wait that times out: the promise is over.
LEMMA TimeoutStep ==
  ASSUME WorkersInv, NEW j \in Workers!Jobs, Workers!Timeout(j)
  PROVE  WorkersInv'
<1>1. PICK s, n : /\ waiter' = [waiter EXCEPT ![j] = Retried(s, n)]
                  /\ timeouts' = timeouts + 1
                  /\ events' = [events EXCEPT ![waiter[j].task] = 0]
                  /\ UNCHANGED <<task, made, evictions, restarts>>
    BY DEF Workers!Timeout, Retried
<1>2. waiter' = [k \in Workers!Jobs |-> waiter'[k]] /\ \A k \in Workers!Jobs : IsJob(waiter'[k])
    BY <1>1, FreshJob DEF WorkersInv, WorkersTypes
<1>3. events' \in [1..Workers!MaxTasks -> Nat]
    BY <1>1 DEF WorkersInv, WorkersTypes
<1>4. timeouts' \in Nat /\ timeouts' # 0
    BY <1>1 DEF WorkersInv, WorkersTypes
<1>5. WorkersTypes' /\ ~InTime'
    BY <1>1, <1>2, <1>3, <1>4 DEF WorkersInv, WorkersTypes, InTime
<1> QED
    BY <1>5 DEF WorkersInv

LEMMA EvictStep == ASSUME WorkersInv, Workers!Evict PROVE WorkersInv'
  BY DEF Workers!Evict, WorkersInv, WorkersTypes, InTime

LEMMA RestartStep ==
  ASSUME Workers!BackgroundAssumption, WorkersInv, Workers!Restart
  PROVE  WorkersInv'
<1>1. \A j \in Workers!Jobs : IsJob(waiter'[j]) /\ waiter'[j].state # "waiting"
  <2> TAKE j \in Workers!Jobs
  <2>1. CASE waiter[j].state \in {"in", "waiting"}
    <3>1. PICK n : waiter'[j] = Retried("queued", n)
        BY <2>1 DEF Workers!Restart, Retried
    <3> QED
        BY <3>1, FreshJob
  <2>2. CASE waiter[j].state \notin {"in", "waiting"}
      BY <2>2 DEF Workers!Restart, WorkersInv, WorkersTypes
  <2> QED
      BY <2>1, <2>2
<1>2. WorkersTypes'
    BY <1>1 DEF Workers!BackgroundAssumption, Workers!Restart, WorkersInv, WorkersTypes,
       Workers!MaxTasks
<1>3. InTime => OneTask'
    BY DEF Workers!Restart, WorkersInv, WorkersTypes, OneTask
<1>4. \A j \in Workers!Jobs : HasEvent(j)'
    BY <1>1 DEF HasEvent
<1> QED
    BY <1>2, <1>3, <1>4 DEF WorkersInv, InTime, Workers!Restart

-----------------------------------------------------------------------------
\* launch_bgworkers: the Task is the one of the waiters, and they all have the event.
LEMMA LaunchStep ==
  ASSUME Workers!BackgroundAssumption, WorkersInv, Workers!Launch
  PROVE  WorkersInv'
<1>1. \A j \in Workers!Jobs :
        waiter'[j] = IF waiter[j].state = "waiting" /\ waiter[j].event = events[Workers!Task]
                  THEN [waiter[j] EXCEPT !.state = "in", !.event = 0] ELSE waiter[j]
    BY DEF Workers!Launch, Workers!Woken
<1>2. \A j \in Workers!Jobs : /\ IsJob(waiter'[j])
                              /\ waiter'[j].state = "waiting" =>
                                   waiter'[j] = waiter[j] /\ waiter[j].event # events[Workers!Task]
  <2> TAKE j \in Workers!Jobs
  <2>1. CASE waiter[j].state = "waiting" /\ waiter[j].event = events[Workers!Task]
    <3>1. PICK t, f : waiter[j] = [state |-> waiter[j].state, task |-> t, event |-> waiter[j].event,
                                fails |-> f]
        BY DEF WorkersInv, WorkersTypes, IsJob
    <3> DEFINE u == [waiter[j] EXCEPT !.state = "in"]
    <3>2. u = [state |-> "in", task |-> t, event |-> waiter[j].event, fails |-> f]
        BY <3>1
    <3>3. waiter'[j] = [u EXCEPT !.event = 0]
        BY <1>1, <2>1
    <3> HIDE DEF u
    <3>4. waiter'[j] = [state |-> "in", task |-> t, event |-> 0, fails |-> f]
        BY <3>2, <3>3
    <3> QED
        BY <3>4 DEF IsJob
  <2>2. CASE ~(waiter[j].state = "waiting" /\ waiter[j].event = events[Workers!Task])
      BY <1>1, <2>2 DEF WorkersInv, WorkersTypes
  <2> QED
      BY <2>1, <2>2
<1>3. WorkersTypes'
  <2>1. /\ task' = Workers!Task /\ made' = [made EXCEPT !.tasks = Workers!MadeTask]
        /\ events' = [events EXCEPT ![Workers!Task] = 0]
        /\ waiter' = Workers!Woken /\ UNCHANGED <<timeouts, evictions, restarts>>
      BY DEF Workers!Launch
  <2>2. Workers!Task \in Nat /\ Workers!MadeTask \in Nat
      BY DEF Workers!Task, Workers!MadeTask, WorkersInv, WorkersTypes
  <2>3. waiter' = [j \in Workers!Jobs |-> waiter'[j]]
      BY <2>1 DEF Workers!Woken
  <2>4. events' \in [1..Workers!MaxTasks -> Nat]
      BY <2>1 DEF WorkersInv, WorkersTypes
  <2>5. made' \in [tasks : Nat, events : Nat]
      BY <2>1, <2>2 DEF WorkersInv, WorkersTypes
  <2>6. task' \in Nat
      BY <2>1, <2>2
  <2>8. \A j \in Workers!Jobs : IsJob(waiter'[j])
      BY <1>2
  <2>7. timeouts' \in Nat /\ evictions' \in Nat /\ restarts' \in Nat /\ restarts' <= MaxRestarts
      BY <2>1 DEF WorkersInv, WorkersTypes
  <2> QED
      BY <2>3, <2>4, <2>5, <2>6, <2>7, <2>8 DEF WorkersTypes
<1>4. ASSUME InTime PROVE OneTask' /\ \A j \in Workers!Jobs : HasEvent(j)'
  <2>1. \A j \in Workers!Jobs : waiter'[j].state # "waiting"
    <3> TAKE j \in Workers!Jobs
    <3>1. ASSUME waiter'[j].state = "waiting" PROVE FALSE
      <4>3. waiter'[j] = waiter[j] /\ waiter[j].event # events[Workers!Task]
          BY <1>2, <3>1
      <4>1. waiter[j].state = "waiting" /\ waiter[j].event # events[Workers!Task]
          BY <4>3, <3>1
      <4>2. task # 0 /\ waiter[j].event = events[task]
          BY <1>4, <4>1 DEF WorkersInv, HasEvent
      <4> QED
          BY <4>1, <4>2 DEF Workers!Task
    <3> QED
        BY <3>1
  <2>2. /\ task' = Workers!Task /\ launch' = Workers!Task /\ workers' = workers \cup {Workers!Task}
        /\ made'.tasks = Workers!MadeTask /\ UNCHANGED restarts
      BY DEF Workers!Launch, WorkersInv, WorkersTypes
  <2>3. /\ Workers!Task \in Nat /\ Workers!Task # 0 /\ workers \subseteq {Workers!Task}
        /\ Workers!Task <= Workers!MadeTask /\ Workers!MadeTask <= restarts + 1
      BY <1>4, TaskHasPlace DEF Workers!Task, WorkersInv, WorkersTypes, OneTask
  <2>4. OneTask'
      BY <2>2, <2>3 DEF OneTask
  <2> QED
      BY <2>1, <2>4 DEF HasEvent
<1> QED
    BY <1>3, <1>4 DEF WorkersInv, InTime, Workers!Launch

LEMMA LaunchFailsStep == ASSUME WorkersInv, Workers!LaunchFails PROVE WorkersInv'
<1>1. WorkersTypes'
    BY DEF Workers!LaunchFails, WorkersInv, WorkersTypes
<1>2. OneTask => OneTask'
    BY DEF Workers!LaunchFails, OneTask
<1>3. ASSUME NEW j \in Workers!Jobs, HasEvent(j) PROVE HasEvent(j)'
    BY <1>3 DEF Workers!LaunchFails, HasEvent
<1> QED
    BY <1>1, <1>2, <1>3 DEF WorkersInv, InTime, Workers!LaunchFails

\* wait_for_bgworker
LEMMA StartStep ==
  ASSUME Workers!BackgroundAssumption, WorkersInv, NEW j \in Workers!Jobs, Workers!Start(j)
  PROVE  WorkersInv'
<1>1. PICK s, t, e, f : waiter[j] = [state |-> s, task |-> t, event |-> e, fails |-> f]
    BY DEF WorkersInv, WorkersTypes, IsJob
<1>2. Workers!Task \in Nat /\ Workers!MadeTask \in Nat
    BY DEF Workers!Task, Workers!MadeTask, WorkersInv, WorkersTypes
<1>3. task' = Workers!Task /\ UNCHANGED <<launch, workers, timeouts, evictions, restarts>>
    BY DEF Workers!Start
<1>4. CASE Workers!Task \in workers
  <2>1. /\ waiter' = [waiter EXCEPT ![j].state = "in", ![j].task = Workers!Task]
        /\ made' = [made EXCEPT !.tasks = Workers!MadeTask] /\ UNCHANGED events
      BY <1>4 DEF Workers!Start
  <2>2. waiter'[j] = [state |-> "in", task |-> Workers!Task, event |-> e, fails |-> f]
    <3> DEFINE a == [waiter EXCEPT ![j].state = "in"]
    <3>1. a[j] = [state |-> "in", task |-> t, event |-> e, fails |-> f]
        BY <1>1 DEF WorkersInv, WorkersTypes
    <3>2. waiter' = [a EXCEPT ![j].task = Workers!Task] /\ j \in DOMAIN a
        BY <2>1 DEF WorkersInv, WorkersTypes
    <3> HIDE DEF a
    <3> QED
        BY <3>1, <3>2
  <2>3. /\ waiter' = [k \in Workers!Jobs |-> waiter'[k]]
        /\ \A k \in Workers!Jobs : k # j => waiter'[k] = waiter[k]
      BY <2>1 DEF WorkersInv, WorkersTypes
  <2>4. \A k \in Workers!Jobs : IsJob(waiter'[k]) /\ (waiter'[k] = waiter[k] \/ waiter'[k].state # "waiting")
      BY <2>2, <2>3 DEF WorkersInv, WorkersTypes, IsJob
  <2>5. WorkersTypes'
      BY <1>2, <1>3, <2>1, <2>3, <2>4 DEF WorkersInv, WorkersTypes
  <2>6. ASSUME InTime PROVE OneTask' /\ \A k \in Workers!Jobs : HasEvent(k)'
    <3>1. task = Workers!Task /\ task # 0
        BY <1>4, <2>6 DEF WorkersInv, OneTask
    <3>2. UNCHANGED <<task, events, workers, restarts, launch>> /\ made'.tasks = made.tasks
        BY <1>3, <2>1, <3>1 DEF Workers!MadeTask, WorkersInv, WorkersTypes
    <3>3. OneTask'
        BY <2>6, <3>2 DEF WorkersInv, OneTask
    <3>4. \A k \in Workers!Jobs : HasEvent(k)'
        BY <2>4, <2>6, <3>2 DEF WorkersInv, HasEvent
    <3> QED
        BY <3>3, <3>4
  <2> QED
      BY <1>3, <2>5, <2>6 DEF WorkersInv, InTime
<1>5. CASE Workers!Task \notin workers
  <2> DEFINE event == IF events[Workers!Task] = 0 THEN made.events + 1 ELSE events[Workers!Task]
  <2>1. /\ events' = [events EXCEPT ![Workers!Task] = event]
        /\ waiter' = [waiter EXCEPT ![j].state = "waiting", ![j].task = Workers!Task, ![j].event = event]
        /\ made' = [tasks |-> Workers!MadeTask,
                    events |-> IF events[Workers!Task] = 0 THEN event ELSE made.events]
      BY <1>5 DEF Workers!Start
  <2>2. Workers!Task \in 1..Workers!MaxTasks => event \in Nat /\ event # 0
      BY DEF WorkersInv, WorkersTypes
  <2>3. made' \in [tasks : Nat, events : Nat] /\ made'.tasks = Workers!MadeTask
      BY <1>2, <2>1 DEF WorkersInv, WorkersTypes
  <2>4. events' \in [1..Workers!MaxTasks -> Nat]
      BY <2>1, <2>2 DEF WorkersInv, WorkersTypes
  <2>5. Workers!Task \in 1..Workers!MaxTasks => events'[Workers!Task] = event
      BY <2>1 DEF WorkersInv, WorkersTypes
  <2> HIDE DEF event
  <2>6. waiter'[j] = [state |-> "waiting", task |-> Workers!Task, event |-> event, fails |-> f]
    <3> DEFINE a == [waiter EXCEPT ![j].state = "waiting"] b == [a EXCEPT ![j].task = Workers!Task]
    <3>1. a[j] = [state |-> "waiting", task |-> t, event |-> e, fails |-> f] /\ j \in DOMAIN a
        BY <1>1 DEF WorkersInv, WorkersTypes
    <3>2. waiter' = [b EXCEPT ![j].event = event]
        BY <2>1
    <3> HIDE DEF a
    <3>3. b[j] = [state |-> "waiting", task |-> Workers!Task, event |-> e, fails |-> f] /\ j \in DOMAIN b
        BY <3>1
    <3> HIDE DEF b
    <3> QED
        BY <3>2, <3>3
  <2>7. /\ waiter' = [k \in Workers!Jobs |-> waiter'[k]]
        /\ \A k \in Workers!Jobs : k # j => waiter'[k] = waiter[k]
      BY <2>1 DEF WorkersInv, WorkersTypes
  <2>8. \A k \in Workers!Jobs : IsJob(waiter'[k])
      BY <2>6, <2>7 DEF WorkersInv, WorkersTypes, IsJob
  <2>9. WorkersTypes'
      BY <1>2, <1>3, <2>3, <2>4, <2>7, <2>8 DEF WorkersInv, WorkersTypes
  <2>10. ASSUME InTime PROVE OneTask' /\ \A k \in Workers!Jobs : HasEvent(k)'
    <3>1. /\ Workers!Task \in 1..Workers!MaxTasks /\ Workers!Task <= Workers!MadeTask /\ Workers!MadeTask <= restarts + 1
          /\ Workers!Task # 0 /\ workers = {}
        BY <1>5, <2>10, TaskHasPlace DEF Workers!Task, WorkersInv, OneTask
    <3>2. launch \in {0, Workers!Task}
        BY <2>10 DEF Workers!Task, WorkersInv, OneTask
    <3>3. OneTask'
        BY <1>3, <2>3, <3>1, <3>2 DEF OneTask
    <3>4. ASSUME NEW k \in Workers!Jobs PROVE HasEvent(k)'
      <4>1. CASE k = j
          BY <1>3, <2>2, <2>5, <2>6, <3>1, <4>1 DEF HasEvent
      <4>2. CASE k # j /\ waiter[k].state = "waiting"
        <5>1. task = Workers!Task /\ waiter[k].task = Workers!Task /\ waiter[k].event = events[Workers!Task] /\ events[Workers!Task] # 0
            BY <2>10, <4>2 DEF WorkersInv, HasEvent, Workers!Task
        <5>2. event = events[Workers!Task]
            BY <5>1 DEF event
        <5> QED
            BY <1>3, <2>5, <2>7, <3>1, <4>2, <5>1, <5>2 DEF HasEvent
      <4>3. CASE k # j /\ waiter[k].state # "waiting"
          BY <2>7, <4>3 DEF HasEvent
      <4> QED
          BY <4>1, <4>2, <4>3
    <3> QED
        BY <3>3, <3>4
  <2> QED
      BY <1>3, <2>9, <2>10 DEF WorkersInv, InTime
<1> QED
    BY <1>4, <1>5

LEMMA WorkersNext ==
  ASSUME Workers!BackgroundAssumption, WorkersInv, [Workers!Next]_(Workers!bgVars)
  PROVE  WorkersInv'
<1>1. CASE UNCHANGED Workers!bgVars
    BY <1>1 DEF Workers!bgVars, WorkersInv, WorkersTypes, OneTask, HasEvent, InTime
<1> QED
    BY <1>1, LaunchStep, SubmitFuzzersStep, LaunchFailsStep, EvictStep, RestartStep,
       AddSeedEndsStep, StartStep, TimeoutStep DEF Workers!Next

(***************************************************************************)
(* The loop between the server and the jobs (crs/app/app.py, crs/task_server).*)
(***************************************************************************)
\* The sizes of sets are those of FiniteSets.
LEMMA ServerSets ==
  \A S : (Server!IsFiniteSet(S) <=> IsFiniteSet(S)) /\ Server!Cardinality(S) = Cardinality(S)
    BY DEF Cardinality, Server!Cardinality, IsFiniteSet, Server!IsFiniteSet

ServerIds == ServerTasks \cup ServerSarifs

\* What the variables may hold: the cursors are rows of their tables.
ServerTypes ==
  /\ world \subseteq ServerIds
  /\ taskRows \in Seq(ServerIds) /\ sarifRows \in Seq(ServerIds) /\ cancelRows \in Seq(ServerIds)
  /\ cursor = [tasks |-> cursor.tasks, sarifs |-> cursor.sarifs, cancelled |-> cursor.cancelled]
  /\ cursor.tasks \in 0..Len(taskRows) /\ cursor.sarifs \in 0..Len(sarifRows)
  /\ cursor.cancelled \in 0..Len(cancelRows)
  /\ jobs = [j \in DOMAIN jobs |-> jobs[j]]

\* Every row behind a cursor has its job, or the batch has it.
RowsRead ==
  /\ \A i \in 1..cursor.tasks : Server!Unique("LAUNCH_TASK", taskRows[i]) \in DOMAIN jobs \cup rows
  /\ \A i \in 1..cursor.sarifs :
       Server!Job("LAUNCH_SARIF", TaskOf[sarifRows[i]], sarifRows[i], 1) \in DOMAIN jobs \cup rows

\* A task whose launch was written has its jobs; of the analyses of a diff there is a first.
FirstAnalyses(t) ==
  IF t \in Delta THEN {Server!Unique("ANALYZE_DIFF", t)}
  ELSE {Server!Unique(type, t) : type \in {"LAUNCH_INFER", "LAUNCH_AINALYSIS"}}
TaskLaunched(t, J) == (Server!Children(t) \cup FirstAnalyses(t)) \subseteq J
LaunchesDone ==
  /\ \A j \in DOMAIN jobs : (j.type = "LAUNCH_TASK" /\ jobs[j] \in {"launched", "done"}
       /\ j.task \notin NoHarness) => TaskLaunched(j.task, DOMAIN jobs)
  /\ \A j \in DOMAIN jobs : j.type = "ANALYZE_DIFF" =>
       Server!Unique("ANALYZE_DIFF", j.task) \in DOMAIN jobs

\* The ids behind the cursor are remembered, and of those nothing runs.
CancelledRest ==
  /\ \A i \in 1..cursor.cancelled : cancelRows[i] \in gone
  /\ \A j \in Server!Active : j.task \notin gone

LoopInv ==
  /\ ServerTypes /\ RowsRead /\ LaunchesDone /\ CancelledRest
  /\ \A j \in rows : j.type # "ANALYZE_DIFF"

LEMMA LoopPolls == LoopInv => Server!PollsKeepUp
<1> SUFFICES ASSUME LoopInv PROVE Server!PollsKeepUp
    OBVIOUS
<1>1. ASSUME NEW j \in DOMAIN jobs, j.type = "LAUNCH_TASK", jobs[j] = "done", j.task \notin NoHarness
      PROVE  Server!Children(j.task) \cup {[a EXCEPT !.copy = 1] : a \in Server!Analyses(j.task)}
               \subseteq DOMAIN jobs
  <2>1. {[a EXCEPT !.copy = 1] : a \in Server!Analyses(j.task)} = FirstAnalyses(j.task)
    <3>1. CASE j.task \in Delta
      <4>1. PICK n : Server!NextDiff(j.task) = Server!Job("ANALYZE_DIFF", j.task, "none", n)
          BY DEF Server!NextDiff
      <4>2. [Server!NextDiff(j.task) EXCEPT !.copy = 1] = Server!Unique("ANALYZE_DIFF", j.task)
          BY <4>1 DEF Server!Unique, Server!Job
      <4> QED
          BY <3>1, <4>2 DEF Server!Analyses, FirstAnalyses
    <3>2. CASE j.task \notin Delta
      <4>1. \A type : [Server!Unique(type, j.task) EXCEPT !.copy = 1] = Server!Unique(type, j.task)
          BY DEF Server!Unique, Server!Job
      <4> QED
          BY <3>2, <4>1 DEF Server!Analyses, FirstAnalyses
    <3> QED
        BY <3>1, <3>2
  <2> QED
      BY <1>1, <2>1 DEF LoopInv, LaunchesDone, TaskLaunched
<1>2. \A i \in 1..cursor.cancelled : ~\E j \in Server!Active : j.task = cancelRows[i]
    BY DEF LoopInv, CancelledRest
<1> QED
    BY <1>1, <1>2 DEF LoopInv, RowsRead, Server!PollsKeepUp

\* Rows are only added at the end.
LEMMA RowsStay ==
  ASSUME NEW rs \in Seq(ServerIds), NEW new \in SUBSET ServerIds, Server!IsFiniteSet(new)
  PROVE  /\ Server!Appended(rs, new) \in Seq(ServerIds) /\ Len(rs) <= Len(Server!Appended(rs, new))
         /\ \A i \in 1..Len(rs) : Server!Appended(rs, new)[i] = rs[i]
<1>1. PICK n \in Nat : n = Server!Cardinality(new) /\ ExistsBijection(1..n, new)
    BY FS_CardinalityType, ServerSets
<1>2. \E f \in [1..n -> new] : Server!IsInjective(f)
    BY <1>1 DEF ExistsBijection, Bijection, Injection, IsInjective, Server!IsInjective
<1>3. Server!SetToSeq(new) \in [1..n -> new]
    BY <1>1, <1>2 DEF Server!SetToSeq
<1>4. Server!SetToSeq(new) \in Seq(ServerIds)
    BY <1>3, SeqDef
<1> QED
    BY <1>4, ConcatProperties DEF Server!Appended

LEMMA PostedRows ==
  ASSUME Server!TaskLoopAssumption, LoopInv, NEW rs \in Seq(ServerIds),
       NEW new \in SUBSET ServerIds
  PROVE  /\ Server!Appended(rs, new) \in Seq(ServerIds) /\ Len(rs) \in Nat
         /\ Len(Server!Appended(rs, new)) \in Nat
         /\ Len(rs) <= Len(Server!Appended(rs, new))
         /\ \A i \in 1..Len(rs) : Server!Appended(rs, new)[i] = rs[i]
<1>1. Server!IsFiniteSet(new)
    BY FS_Union, FS_Subset, ServerSets DEF ServerIds, Server!TaskLoopAssumption
<1> QED
    BY <1>1, RowsStay, LenProperties

LEMMA PostTasksKeeps ==
  ASSUME Server!TaskLoopAssumption, LoopInv, NEW new \in SUBSET (world \cap ServerTasks),
       Server!PostTasks(new)
  PROVE  LoopInv'
<1>1. taskRows' = Server!Appended(taskRows, new)
      /\ UNCHANGED <<world, sarifRows, cancelRows, loopPhase, cursor, rows, jobs, gone>>
    BY DEF Server!PostTasks
<1>2. taskRows \in Seq(ServerIds) /\ new \in SUBSET ServerIds
    BY DEF LoopInv, ServerTypes, ServerIds
<1>3. /\ taskRows' \in Seq(ServerIds) /\ Len(taskRows) \in Nat /\ Len(taskRows') \in Nat
      /\ Len(taskRows) <= Len(taskRows') /\ \A i \in 1..Len(taskRows) : taskRows'[i] = taskRows[i]
    BY <1>1, <1>2, PostedRows
<1>4. ServerTypes'
    BY <1>1, <1>3 DEF LoopInv, ServerTypes
<1>5. RowsRead'
    BY <1>1, <1>3 DEF LoopInv, ServerTypes, RowsRead
<1> QED
    BY <1>1, <1>4, <1>5 DEF LoopInv, LaunchesDone, CancelledRest, Server!Active,
       Server!JobsThatAre

LEMMA PostSarifKeeps ==
  ASSUME Server!TaskLoopAssumption, LoopInv, NEW s \in world \cap ServerSarifs,
       Server!PostSarif(s)
  PROVE  LoopInv'
<1>1. sarifRows' = Append(sarifRows, s)
      /\ UNCHANGED <<world, taskRows, cancelRows, loopPhase, cursor, rows, jobs, gone>>
    BY DEF Server!PostSarif
<1>2. sarifRows \in Seq(ServerIds) /\ s \in ServerIds
    BY DEF LoopInv, ServerTypes, ServerIds
<1>3. /\ sarifRows' \in Seq(ServerIds) /\ Len(sarifRows) \in Nat
      /\ Len(sarifRows') = Len(sarifRows) + 1
      /\ \A i \in 1..Len(sarifRows) : sarifRows'[i] = sarifRows[i]
    BY <1>1, <1>2, AppendProperties, LenProperties
<1>4. ServerTypes'
    BY <1>1, <1>3 DEF LoopInv, ServerTypes
<1>5. RowsRead'
  <2>1. \A i \in 1..cursor.sarifs : sarifRows'[i] = sarifRows[i]
      BY <1>3 DEF LoopInv, ServerTypes
  <2> QED
      BY <1>1, <2>1 DEF LoopInv, RowsRead
<1> QED
    BY <1>1, <1>4, <1>5 DEF LoopInv, LaunchesDone, CancelledRest, Server!Active,
       Server!JobsThatAre

LEMMA CancelKeeps ==
  ASSUME Server!TaskLoopAssumption, LoopInv, NEW ids \in SUBSET ServerIds, Server!Cancel(ids)
  PROVE  LoopInv'
<1>1. PICK new \in SUBSET ServerIds : cancelRows' = Server!Appended(cancelRows, new)
    BY DEF Server!Cancel
<1>2. UNCHANGED <<world, taskRows, sarifRows, loopPhase, cursor, rows, jobs, gone>>
    BY DEF Server!Cancel
<1>3. /\ cancelRows' \in Seq(ServerIds) /\ Len(cancelRows) \in Nat /\ Len(cancelRows') \in Nat
      /\ Len(cancelRows) <= Len(cancelRows')
      /\ \A i \in 1..Len(cancelRows) : cancelRows'[i] = cancelRows[i]
    BY <1>1, PostedRows DEF LoopInv, ServerTypes
<1>4. ServerTypes'
    BY <1>2, <1>3 DEF LoopInv, ServerTypes
<1>5. CancelledRest'
    BY <1>2, <1>3 DEF LoopInv, ServerTypes, CancelledRest, Server!Active, Server!JobsThatAre
<1> QED
    BY <1>2, <1>4, <1>5 DEF LoopInv, LaunchesDone, RowsRead

LEMMA ReadTasksKeeps ==
  ASSUME LoopInv, Server!ReadTasks PROVE LoopInv'
<1>1. /\ rows = {} /\ cursor' = [cursor EXCEPT !.tasks = Len(taskRows)]
      /\ rows' = {Server!Unique("LAUNCH_TASK", t) : t \in Server!After(taskRows, cursor.tasks)}
      /\ UNCHANGED <<world, taskRows, sarifRows, cancelRows, jobs, gone>>
    BY DEF Server!ReadTasks, Server!server
<1>2. cursor' = [tasks |-> Len(taskRows), sarifs |-> cursor.sarifs, cancelled |-> cursor.cancelled]
    BY <1>1 DEF LoopInv, ServerTypes
<1>3. Len(taskRows) \in Nat
    BY LenProperties DEF LoopInv, ServerTypes
<1>4. ServerTypes'
    BY <1>1, <1>2, <1>3 DEF LoopInv, ServerTypes
<1>5. RowsRead'
  <2>1. ASSUME NEW i \in 1..Len(taskRows)
        PROVE  Server!Unique("LAUNCH_TASK", taskRows[i]) \in DOMAIN jobs \cup rows'
    <3>1. CASE i \in 1..cursor.tasks
        BY <1>1, <3>1 DEF LoopInv, RowsRead
    <3>2. CASE i \in cursor.tasks + 1..Len(taskRows)
        BY <1>1, <3>2 DEF Server!After
    <3> QED
        BY <1>3, <2>1, <3>1, <3>2 DEF LoopInv, ServerTypes
  <2>2. \A i \in 1..cursor.sarifs :
          Server!Job("LAUNCH_SARIF", TaskOf[sarifRows[i]], sarifRows[i], 1) \in DOMAIN jobs
      BY <1>1 DEF LoopInv, RowsRead
  <2> QED
      BY <1>1, <1>2, <2>1, <2>2 DEF RowsRead
<1>6. CancelledRest' /\ LaunchesDone'
    BY <1>1, <1>2 DEF LoopInv, CancelledRest, LaunchesDone, Server!Active, Server!JobsThatAre
<1>7. \A j \in rows' : j.type # "ANALYZE_DIFF"
    BY <1>1 DEF Server!Unique, Server!Job
<1> QED
    BY <1>4, <1>5, <1>6, <1>7 DEF LoopInv

LEMMA ReadSarifsKeeps ==
  ASSUME LoopInv, Server!ReadSarifs PROVE LoopInv'
<1>1. /\ rows = {} /\ cursor' = [cursor EXCEPT !.sarifs = Len(sarifRows)]
      /\ rows' = {Server!Job("LAUNCH_SARIF", TaskOf[s], s, 1) :
                   s \in Server!After(sarifRows, cursor.sarifs)}
      /\ UNCHANGED <<world, taskRows, sarifRows, cancelRows, jobs, gone>>
    BY DEF Server!ReadSarifs, Server!server
<1>2. cursor' = [tasks |-> cursor.tasks, sarifs |-> Len(sarifRows), cancelled |-> cursor.cancelled]
    BY <1>1 DEF LoopInv, ServerTypes
<1>3. Len(sarifRows) \in Nat
    BY LenProperties DEF LoopInv, ServerTypes
<1>4. ServerTypes'
    BY <1>1, <1>2, <1>3 DEF LoopInv, ServerTypes
<1>5. RowsRead'
  <2>1. ASSUME NEW i \in 1..Len(sarifRows)
        PROVE  Server!Job("LAUNCH_SARIF", TaskOf[sarifRows[i]], sarifRows[i], 1)
                 \in DOMAIN jobs \cup rows'
    <3>1. CASE i \in 1..cursor.sarifs
        BY <1>1, <3>1 DEF LoopInv, RowsRead
    <3>2. CASE i \in cursor.sarifs + 1..Len(sarifRows)
        BY <1>1, <3>2 DEF Server!After
    <3> QED
        BY <1>3, <2>1, <3>1, <3>2 DEF LoopInv, ServerTypes
  <2>2. \A i \in 1..cursor.tasks : Server!Unique("LAUNCH_TASK", taskRows[i]) \in DOMAIN jobs
      BY <1>1 DEF LoopInv, RowsRead
  <2> QED
      BY <1>1, <1>2, <2>1, <2>2 DEF RowsRead
<1>6. CancelledRest' /\ LaunchesDone'
    BY <1>1, <1>2 DEF LoopInv, CancelledRest, LaunchesDone, Server!Active, Server!JobsThatAre
<1>7. \A j \in rows' : j.type # "ANALYZE_DIFF"
    BY <1>1 DEF Server!Job
<1> QED
    BY <1>4, <1>5, <1>6, <1>7 DEF LoopInv

\* Jobs that are added wait; the others stay as they are.
LEMMA AddedJobs ==
  ASSUME NEW new, NEW J, J = Server!Submitted(new)
  PROVE  /\ DOMAIN J = DOMAIN jobs \cup new
         /\ \A j \in DOMAIN J : IF j \in DOMAIN jobs THEN J[j] = jobs[j] ELSE J[j] = "submitted"
    BY DEF Server!Submitted

\* How the jobs change in a step that reads no rows: none goes, what runs ran before, and what
\* is launched or done was so before.
JobsMove ==
  /\ jobs' = [j \in DOMAIN jobs' |-> jobs'[j]]
  /\ DOMAIN jobs \subseteq DOMAIN jobs'
  /\ \A j \in DOMAIN jobs' : jobs'[j] \in {"running", "launched"} =>
       j \in DOMAIN jobs /\ (jobs[j] \in {"running", "launched"} \/ j.task \notin gone)
  /\ \A j \in DOMAIN jobs' : (j.type = "LAUNCH_TASK" /\ jobs'[j] \in {"launched", "done"}) =>
       \/ j \in DOMAIN jobs /\ jobs[j] \in {"launched", "done"}
       \/ j.task \in NoHarness
       \/ TaskLaunched(j.task, DOMAIN jobs')
  /\ \A j \in DOMAIN jobs' : j.type = "ANALYZE_DIFF" =>
       j \in DOMAIN jobs \/ Server!Unique("ANALYZE_DIFF", j.task) \in DOMAIN jobs'

LEMMA MovedJobs ==
  ASSUME LoopInv, JobsMove, UNCHANGED <<world, taskRows, sarifRows, cancelRows, cursor, gone>>,
         rows' = rows \/ (rows' = {} /\ rows \subseteq DOMAIN jobs')
  PROVE  LoopInv'
<1>1. ServerTypes'
    BY DEF LoopInv, ServerTypes, JobsMove
<1>2. RowsRead'
  <2>1. DOMAIN jobs \cup rows \subseteq DOMAIN jobs' \cup rows'
      BY DEF JobsMove
  <2> QED
      BY <2>1 DEF LoopInv, RowsRead
<1>3. LaunchesDone'
  <2>1. \A t : TaskLaunched(t, DOMAIN jobs) => TaskLaunched(t, DOMAIN jobs')
      BY DEF JobsMove, TaskLaunched
  <2>2. \A j \in DOMAIN jobs' : (j.type = "LAUNCH_TASK" /\ jobs'[j] \in {"launched", "done"}
          /\ j.task \notin NoHarness) => TaskLaunched(j.task, DOMAIN jobs')
      BY <2>1 DEF LoopInv, LaunchesDone, JobsMove
  <2>3. \A j \in DOMAIN jobs' : j.type = "ANALYZE_DIFF" =>
          Server!Unique("ANALYZE_DIFF", j.task) \in DOMAIN jobs'
      BY DEF LoopInv, LaunchesDone, JobsMove
  <2> QED
      BY <2>2, <2>3 DEF LaunchesDone
<1>4. CancelledRest'
    BY DEF LoopInv, CancelledRest, JobsMove, Server!Active, Server!JobsThatAre
<1> QED
    BY <1>1, <1>2, <1>3, <1>4 DEF LoopInv

LEMMA SubmitBatchKeeps ==
  ASSUME LoopInv, Server!SubmitBatch PROVE LoopInv'
<1>1. /\ jobs' = Server!Submitted(rows) /\ rows' = {}
      /\ UNCHANGED <<world, taskRows, sarifRows, cancelRows, cursor, gone>>
    BY DEF Server!SubmitBatch, Server!server
<1>2. /\ DOMAIN jobs' = DOMAIN jobs \cup rows
      /\ \A j \in DOMAIN jobs' : IF j \in DOMAIN jobs THEN jobs'[j] = jobs[j]
                                 ELSE jobs'[j] = "submitted"
    BY <1>1, AddedJobs
<1>3. jobs' = [j \in DOMAIN jobs' |-> jobs'[j]]
    BY <1>1 DEF Server!Submitted
<1>4. JobsMove
    BY <1>2, <1>3 DEF JobsMove, LoopInv
<1> QED
    BY <1>1, <1>2, <1>4, MovedJobs

LEMMA ReadCancelledKeeps ==
  ASSUME LoopInv, Server!ReadCancelled PROVE LoopInv'
<1>1. PICK ids : /\ ids = Server!After(cancelRows, cursor.cancelled) /\ gone' = gone \cup ids
                 /\ jobs' = [j \in DOMAIN jobs |->
                       IF j \in Server!Active /\ j.task \in ids THEN "cancelled" ELSE jobs[j]]
    BY DEF Server!ReadCancelled, Server!Remembered
<1>2. /\ cursor' = [cursor EXCEPT !.cancelled = Len(cancelRows)]
      /\ UNCHANGED <<world, taskRows, sarifRows, cancelRows, rows>>
    BY DEF Server!ReadCancelled, Server!server
<1>3. cursor' = [tasks |-> cursor.tasks, sarifs |-> cursor.sarifs, cancelled |-> Len(cancelRows)]
    BY <1>2 DEF LoopInv, ServerTypes
<1>4. Len(cancelRows) \in Nat
    BY LenProperties DEF LoopInv, ServerTypes
<1>5. ServerTypes'
  <2>1. jobs' = [j \in DOMAIN jobs' |-> jobs'[j]]
      BY <1>1
  <2>2. /\ cursor' = [tasks |-> cursor'.tasks, sarifs |-> cursor'.sarifs,
                       cancelled |-> cursor'.cancelled]
        /\ cursor'.tasks = cursor.tasks /\ cursor'.sarifs = cursor.sarifs
        /\ cursor'.cancelled \in 0..Len(cancelRows)
      BY <1>3, <1>4
  <2> QED
      BY <1>2, <2>1, <2>2 DEF LoopInv, ServerTypes
<1>6. RowsRead' /\ LaunchesDone'
    BY <1>1, <1>2, <1>3 DEF LoopInv, RowsRead, LaunchesDone
<1>7. \A i \in 1..Len(cancelRows) : cancelRows[i] \in gone \cup ids
  <2> SUFFICES ASSUME NEW i \in 1..Len(cancelRows) PROVE cancelRows[i] \in gone \cup ids
      OBVIOUS
  <2>1. CASE i \in 1..cursor.cancelled
      BY <2>1 DEF LoopInv, CancelledRest
  <2>2. CASE i \in cursor.cancelled + 1..Len(cancelRows)
      BY <1>1, <2>2 DEF Server!After
  <2> QED
      BY <1>4, <2>1, <2>2 DEF LoopInv, ServerTypes
<1>8. \A j \in DOMAIN jobs' : jobs'[j] \in {"running", "launched"} => j.task \notin gone \cup ids
    BY <1>1 DEF LoopInv, CancelledRest, Server!Active, Server!JobsThatAre
<1>9. CancelledRest'
    BY <1>1, <1>2, <1>3, <1>7, <1>8 DEF CancelledRest, Server!Active, Server!JobsThatAre
<1> QED
    BY <1>2, <1>5, <1>6, <1>9 DEF LoopInv

LEMMA ScheduleKeeps ==
  ASSUME LoopInv, Server!ScheduleStep PROVE LoopInv'
<1>1. /\ UNCHANGED <<world, taskRows, sarifRows, cancelRows, cursor, gone, rows>>
      /\ jobs' = [j \in DOMAIN jobs |->
                IF jobs[j] # "submitted" THEN jobs[j]
                ELSE IF j.task \in gone THEN "cancelled" ELSE "running"]
    BY DEF Server!ScheduleStep, Server!server
<1>2. JobsMove
    BY <1>1 DEF JobsMove
<1> QED
    BY <1>1, <1>2, MovedJobs

LEMMA NoTaskKeeps ==
  ASSUME LoopInv, NEW j \in DOMAIN jobs, Server!NoTask(j) PROVE LoopInv'
<1>1. /\ UNCHANGED <<world, taskRows, sarifRows, cancelRows, cursor, gone, rows>>
      /\ \E s \in {"failed", "submitted"} : jobs' = [jobs EXCEPT ![j] = s]
    BY DEF Server!NoTask, Server!server
<1>2. JobsMove
    BY <1>1 DEF JobsMove, LoopInv, ServerTypes
<1> QED
    BY <1>1, <1>2, MovedJobs

LEMMA EndsKeeps ==
  ASSUME LoopInv, NEW j \in DOMAIN jobs, Server!Ends(j) PROVE LoopInv'
<1>1. /\ UNCHANGED <<world, taskRows, sarifRows, cancelRows, cursor, gone, rows>>
      /\ jobs[j] = "launched" \/ j.type = "LAUNCH_SARIF"
      /\ jobs' = [jobs EXCEPT ![j] = "done"]
    BY DEF Server!Ends, Server!server
<1>2. JobsMove
    BY <1>1 DEF JobsMove, LoopInv, ServerTypes
<1> QED
    BY <1>1, <1>2, MovedJobs

\* The first analysis of a diff is the copy one.
LEMMA NextIsFirst ==
  ASSUME LoopInv, NEW t
  PROVE  \/ Server!NextDiff(t) = Server!Unique("ANALYZE_DIFF", t)
         \/ Server!Unique("ANALYZE_DIFF", t) \in DOMAIN jobs
<1>1. CASE {j \in DOMAIN jobs : j.type = "ANALYZE_DIFF" /\ j.task = t} = {}
    BY <1>1, FS_EmptySet, ServerSets DEF Server!NextDiff, Server!Unique
<1>2. CASE \E j \in DOMAIN jobs : j.type = "ANALYZE_DIFF" /\ j.task = t
    BY <1>2 DEF LoopInv, LaunchesDone
<1> QED
    BY <1>1, <1>2

LEMMA LaunchTaskKeeps ==
  ASSUME LoopInv, NEW t \in ServerTasks, Server!LaunchTask(t) PROVE LoopInv'
<1>1. PICK k : /\ k = Server!Unique("LAUNCH_TASK", t) /\ k \in DOMAIN jobs /\ jobs[k] = "running"
               /\ jobs' = [(IF t \in NoHarness THEN jobs
                            ELSE Server!Submitted(Server!Children(t) \cup Server!Analyses(t)))
                             EXCEPT ![k] = "launched"]
    BY DEF Server!LaunchTask, Server!JobsThatAre
<1>2. UNCHANGED <<world, taskRows, sarifRows, cancelRows, cursor, gone, rows>>
    BY DEF Server!LaunchTask, Server!server
<1>3. k.task = t /\ k.type = "LAUNCH_TASK"
    BY <1>1 DEF Server!Unique, Server!Job
<1>4. CASE t \in NoHarness
  <2>1. jobs' = [jobs EXCEPT ![k] = "launched"]
      BY <1>1, <1>4
  <2>2. JobsMove
      BY <1>1, <1>3, <1>4, <2>1 DEF JobsMove, LoopInv, ServerTypes
  <2> QED
      BY <1>2, <2>2, MovedJobs
<1>5. CASE t \notin NoHarness
  <2>1. PICK new, J : /\ new = Server!Children(t) \cup Server!Analyses(t)
                      /\ J = Server!Submitted(new)
                      /\ jobs' = [J EXCEPT ![k] = "launched"]
      BY <1>1, <1>5
  <2>2. /\ DOMAIN J = DOMAIN jobs \cup new /\ J = [j \in DOMAIN J |-> J[j]]
        /\ \A j \in DOMAIN J : IF j \in DOMAIN jobs THEN J[j] = jobs[j] ELSE J[j] = "submitted"
      BY <2>1 DEF Server!Submitted
  <2>3. /\ DOMAIN jobs' = DOMAIN jobs \cup new /\ jobs' = [j \in DOMAIN jobs' |-> jobs'[j]]
        /\ jobs'[k] = "launched"
        /\ \A j \in DOMAIN jobs \ {k} : jobs'[j] = jobs[j]
        /\ \A j \in new \ DOMAIN jobs : jobs'[j] = "submitted"
      BY <1>1, <2>1, <2>2
  <2>4. \A j \in new : j.type = "ANALYZE_DIFF" =>
          j = Server!NextDiff(t) /\ j.task = t /\ t \in Delta
      BY <2>1 DEF Server!Children, Server!Analyses, Server!Unique, Server!Job, Server!NextDiff
  <2>5. t \in Delta => Server!Unique("ANALYZE_DIFF", t) \in DOMAIN jobs'
      BY <2>1, <2>3, NextIsFirst DEF Server!Analyses
  <2>6. TaskLaunched(t, DOMAIN jobs')
    <3>1. FirstAnalyses(t) \subseteq DOMAIN jobs'
        BY <2>1, <2>3, <2>5 DEF FirstAnalyses, Server!Analyses
    <3> QED
        BY <2>1, <2>3, <3>1 DEF TaskLaunched
  <2>7. \A j \in DOMAIN jobs' : jobs'[j] \in {"running", "launched"} =>
          j \in DOMAIN jobs /\ jobs[j] \in {"running", "launched"}
      BY <1>1, <2>3
  <2>8. \A j \in DOMAIN jobs' : (j.type = "LAUNCH_TASK" /\ jobs'[j] \in {"launched", "done"}) =>
          \/ j \in DOMAIN jobs /\ jobs[j] \in {"launched", "done"}
          \/ TaskLaunched(j.task, DOMAIN jobs')
      BY <1>3, <2>3, <2>6
  <2>9. \A j \in DOMAIN jobs' : j.type = "ANALYZE_DIFF" =>
          j \in DOMAIN jobs \/ Server!Unique("ANALYZE_DIFF", j.task) \in DOMAIN jobs'
      BY <2>3, <2>4, <2>5
  <2>10. JobsMove
      BY <2>3, <2>7, <2>8, <2>9 DEF JobsMove
  <2> QED
      BY <1>2, <2>10, MovedJobs
<1> QED
    BY <1>4, <1>5

LEMMA LaunchBuildsKeeps ==
  ASSUME LoopInv, NEW t \in ServerTasks, Server!LaunchBuilds(t) PROVE LoopInv'
<1>1. PICK k : /\ k = Server!Unique("LAUNCH_BUILDS", t) /\ k \in DOMAIN jobs /\ jobs[k] = "running"
               /\ \/ jobs' = [Server!Submitted(
                            {Server!Job("ANALYZE_HARNESS", t, h, 1) : h \in Harnesses})
                                EXCEPT ![k] = "launched"]
                  \/ jobs' = [jobs EXCEPT ![k] = "launched"]
    BY DEF Server!LaunchBuilds, Server!JobsThatAre
<1>2. UNCHANGED <<world, taskRows, sarifRows, cancelRows, cursor, gone, rows>>
    BY DEF Server!LaunchBuilds, Server!server
<1>3. k.type = "LAUNCH_BUILDS"
    BY <1>1 DEF Server!Unique, Server!Job
<1>4. CASE jobs' = [jobs EXCEPT ![k] = "launched"]
  <2>1. JobsMove
      BY <1>1, <1>3, <1>4 DEF JobsMove, LoopInv, ServerTypes
  <2> QED
      BY <1>2, <2>1, MovedJobs
<1>5. CASE jobs' = [Server!Submitted(
                            {Server!Job("ANALYZE_HARNESS", t, h, 1) : h \in Harnesses})
                      EXCEPT ![k] = "launched"]
  <2>1. PICK new, J : /\ new = {Server!Job("ANALYZE_HARNESS", t, h, 1) : h \in Harnesses}
                      /\ J = Server!Submitted(new) /\ jobs' = [J EXCEPT ![k] = "launched"]
      BY <1>5
  <2>2. /\ DOMAIN J = DOMAIN jobs \cup new /\ J = [j \in DOMAIN J |-> J[j]]
        /\ \A j \in DOMAIN J : IF j \in DOMAIN jobs THEN J[j] = jobs[j] ELSE J[j] = "submitted"
      BY <2>1 DEF Server!Submitted
  <2>3. /\ DOMAIN jobs' = DOMAIN jobs \cup new /\ jobs' = [j \in DOMAIN jobs' |-> jobs'[j]]
        /\ jobs'[k] = "launched"
        /\ \A j \in DOMAIN jobs \ {k} : jobs'[j] = jobs[j]
        /\ \A j \in new \ DOMAIN jobs : jobs'[j] = "submitted"
      BY <1>1, <2>1, <2>2
  <2>4. \A j \in new : j.type = "ANALYZE_HARNESS"
      BY <2>1 DEF Server!Job
  <2>5. JobsMove
      BY <1>1, <1>3, <2>3, <2>4 DEF JobsMove
  <2> QED
      BY <1>2, <2>5, MovedJobs
<1> QED
    BY <1>1, <1>4, <1>5

LEMMA CrashKeeps ==
  ASSUME LoopInv, Server!Crash PROVE LoopInv'
<1>1. /\ cursor' = [tasks |-> 0, sarifs |-> 0, cancelled |-> 0] /\ rows' = {} /\ gone' = {}
      /\ jobs' = [j \in DOMAIN jobs |-> IF jobs[j] \in {"running", "launched"} THEN "submitted"
                                        ELSE jobs[j]]
      /\ UNCHANGED <<world, taskRows, sarifRows, cancelRows>>
    BY DEF Server!Crash, Server!Start, Server!server
<1>2. /\ Len(taskRows) \in Nat /\ Len(sarifRows) \in Nat /\ Len(cancelRows) \in Nat
    BY LenProperties DEF LoopInv, ServerTypes
<1>3. ServerTypes'
    BY <1>1, <1>2 DEF LoopInv, ServerTypes
<1>4. RowsRead'
    BY <1>1 DEF RowsRead
<1>5. LaunchesDone'
    BY <1>1 DEF LoopInv, LaunchesDone
<1>6. CancelledRest'
    BY <1>1 DEF CancelledRest, Server!Active, Server!JobsThatAre
<1> QED
    BY <1>1, <1>3, <1>4, <1>5, <1>6 DEF LoopInv

LEMMA LoopBegins == ASSUME Server!TaskLoopAssumption, Server!Init PROVE LoopInv
<1>1. ServerTypes
    BY DEF Server!Init, ServerTypes, Server!Start, ServerIds, Server!TaskLoopAssumption
<1>2. RowsRead /\ LaunchesDone /\ CancelledRest
    BY DEF Server!Init, RowsRead, LaunchesDone, CancelledRest, Server!Start, Server!Active,
       Server!JobsThatAre
<1> QED
    BY <1>1, <1>2 DEF LoopInv, Server!Init

LEMMA LoopSteps ==
  ASSUME Server!TaskLoopAssumption, LoopInv, [Server!Next]_(Server!loopVars)
  PROVE  LoopInv'
<1>1. CASE UNCHANGED <<world, taskRows, sarifRows, cancelRows, cursor, rows, jobs, gone>>
    BY <1>1 DEF LoopInv, ServerTypes, RowsRead, LaunchesDone, CancelledRest, Server!Active,
       Server!JobsThatAre
<1>2. CASE Server!Webhook
  <2>1. ASSUME NEW t \in world \cap ServerTasks, Server!DeleteTask(t) PROVE LoopInv'
      BY <2>1, CancelKeeps DEF Server!DeleteTask, ServerIds
  <2>2. ASSUME Server!DeleteAll PROVE LoopInv'
    <3>1. Server!ToSet(taskRows) \cup Server!ToSet(sarifRows) \in SUBSET ServerIds
        BY ElementOfSeq, LenProperties DEF LoopInv, ServerTypes, Server!ToSet
    <3> QED
        BY <2>2, <3>1, CancelKeeps DEF Server!DeleteAll
  <2> QED
      BY <1>2, <2>1, <2>2, PostTasksKeeps, PostSarifKeeps DEF Server!Webhook
<1>3. CASE \/ \E t \in ServerTasks : Server!TaskFromId(t)
           \/ \E t \in ServerTasks : \E f \in SourcesOf[t] : Server!FetchFile(f)
    BY <1>1, <1>3 DEF Server!TaskFromId, Server!FetchFile, Server!server
<1>4. CASE UNCHANGED Server!loopVars
    BY <1>1, <1>4 DEF Server!loopVars, Server!server
<1> QED
    BY <1>2, <1>3, <1>4, ReadTasksKeeps, ReadSarifsKeeps, SubmitBatchKeeps, ReadCancelledKeeps,
       ScheduleKeeps, NoTaskKeeps, EndsKeeps, LaunchTaskKeeps, LaunchBuildsKeeps, CrashKeeps
       DEF Server!Next, Server!Loop, Server!Work

(***************************************************************************)
(* Containers and the slots of their hosts (crs/common/docker.py).         *)
(***************************************************************************)
\* The sizes of sets are those of FiniteSets.
LEMMA DockerSets ==
  \A S : (Docker!IsFiniteSet(S) <=> IsFiniteSet(S)) /\ Docker!Cardinality(S) = Cardinality(S)
    BY DEF Cardinality, Docker!Cardinality, IsFiniteSet, Docker!IsFiniteSet

Phases == {"idle", "asking", "waiting", "scoped", "launching", "running", "killing", "leaving",
           "ending", "done"}
Client == [request : Requests, phase : Phases, host : Docker!AllHosts \cup {None}, stop : BOOLEAN]
Guests(h) == {c \in Clients : client[c].host = h}

\* The containers and processes that somebody will end, or that were given up.
Cared ==
  /\ \A c \in containers : client[c].phase \in {"launching", "running", "killing"} \/ c \in stray
  /\ processes \subseteq {c \in Clients : client[c].host # None \/ client[c].phase = "ending"}

\* What the variables may hold.
ClientsTypes == client \in [Clients -> Client] /\ containers \subseteq Clients

\* A client has a host while it is in its scope; of a group it has one with enough cores.
Hosted ==
  \A c \in Clients :
    /\ client[c].host = None <=> client[c].phase \in {"idle", "asking", "waiting", "ending", "done"}
    /\ client[c].host \in Hosts => client[c].request.cores <= client[c].host.cores
    /\ client[c].phase \in {"asking", "waiting"} =>
         \A h \in Docker!Group(c) : client[c].request.cores <= h.cores

\* A host has booked what its guests asked for.
Booked ==
  /\ DOMAIN slots = Docker!AllHosts
  /\ \A h \in Docker!AllHosts : slots[h] = [c \in Guests(h) |-> client[c].request.cores]

ClientsInv == ClientsTypes /\ Hosted /\ Booked /\ Docker!ContainersAccounted

LEMMA ClientsSubset ==
  ASSUME NEW S, Docker!IsFiniteSet(S), NEW T \in SUBSET S
  PROVE  /\ Docker!IsFiniteSet(T) /\ Docker!Cardinality(T) \in Nat /\ Docker!Cardinality(S) \in Nat
         /\ Docker!Cardinality(T) <= Docker!Cardinality(S)
<1>1. Docker!IsFiniteSet(T) /\ Docker!Cardinality(T) <= Docker!Cardinality(S)
    BY FS_Subset, DockerSets
<1>2. Docker!Cardinality(T) \in Nat /\ Docker!Cardinality(S) \in Nat
    BY <1>1, FS_CardinalityType, DockerSets
<1> QED
    BY <1>1, <1>2

LEMMA ClientsUnion ==
  ASSUME NEW S, Docker!IsFiniteSet(S), NEW T, Docker!IsFiniteSet(T)
  PROVE  /\ Docker!IsFiniteSet(S \cup T) /\ Docker!Cardinality(S \cup T) \in Nat
         /\ Docker!Cardinality(S \cup T) <= Docker!Cardinality(S) + Docker!Cardinality(T)
<1>1. /\ Docker!IsFiniteSet(S \cap T) /\ Docker!Cardinality(S \cap T) \in Nat
      /\ Docker!Cardinality(S) \in Nat /\ Docker!Cardinality(T) \in Nat
      /\ Docker!IsFiniteSet(S \cup T) /\ Docker!Cardinality(S \cup T) \in Nat
  <2>1. Docker!IsFiniteSet(S \cap T)
      BY FS_Intersection, DockerSets
  <2>2. Docker!IsFiniteSet(S \cup T)
      BY FS_Union, DockerSets
  <2> QED
      BY <2>1, <2>2, FS_CardinalityType, DockerSets
<1>2. Docker!Cardinality(S \cup T) = Docker!Cardinality(S) + Docker!Cardinality(T) - Docker!Cardinality(S \cap T)
    BY FS_Union, DockerSets
<1> QED
    BY <1>1, <1>2

\* The cores of one client.
LEMMA OneClient ==
  ASSUME NEW c, NEW k \in Nat
  PROVE  Docker!IsFiniteSet({c} \X (1..k)) /\ Docker!Cardinality({c} \X (1..k)) = k
<1>1. Docker!IsFiniteSet(1..k) /\ Docker!Cardinality(1..k) = k
  <2>1. 1 \in Int /\ k \in Int
      OBVIOUS
  <2> QED
      BY <2>1, FS_Interval, DockerSets
<1>2. Docker!IsFiniteSet({c}) /\ Docker!Cardinality({c}) = 1
    BY FS_Singleton, DockerSets
<1>3. /\ Docker!IsFiniteSet({c} \X (1..k))
      /\ Docker!Cardinality({c} \X (1..k)) = Docker!Cardinality({c}) * Docker!Cardinality(1..k)
    BY <1>1, <1>2, FS_Product, DockerSets
<1> QED
    BY <1>1, <1>2, <1>3

\* The cores in use on a host are finitely many.
LEMMA CoresFinite ==
  ASSUME Docker!ContainersAssumption, NEW given, DOMAIN given \subseteq Clients, NEW n \in Nat,
         \A c \in DOMAIN given : given[c] \in 0..n
  PROVE  LET cores == UNION {{c} \X (1..given[c]) : c \in DOMAIN given}
         IN Docker!IsFiniteSet(cores) /\ Docker!Cardinality(cores) \in Nat
<1>1. Docker!IsFiniteSet(1..n)
  <2>1. 1 \in Int /\ n \in Int
      OBVIOUS
  <2> QED
      BY <2>1, FS_Interval, DockerSets
<1>2. Docker!IsFiniteSet(Clients \X (1..n))
    BY <1>1, FS_Product, DockerSets DEF Docker!ContainersAssumption
<1>3. \A c \in DOMAIN given : {c} \X (1..given[c]) \subseteq Clients \X (1..n)
    OBVIOUS
<1>4. UNION {{c} \X (1..given[c]) : c \in DOMAIN given} \subseteq Clients \X (1..n)
    BY <1>3
<1> QED
    BY <1>2, <1>4, ClientsSubset

LEMMA SlotsFit ==
  ASSUME Docker!ContainersAssumption, ClientsTypes, Hosted, Booked, NEW h \in Hosts
  PROVE  DOMAIN slots[h] \subseteq Clients /\ \A c \in DOMAIN slots[h] : slots[h][c] \in 0..h.cores
<1>1. slots[h] = [c \in Guests(h) |-> client[c].request.cores]
    BY DEF Booked, Docker!AllHosts
<1>2. \A c \in Guests(h) : client[c].request.cores \in 0..h.cores
    BY DEF Guests, ClientsTypes, Client, Hosted, Docker!ContainersAssumption
<1> QED
    BY <1>1, <1>2 DEF Guests

LEMMA ClientsInit == ASSUME Docker!ContainersAssumption, Docker!Init PROVE ClientsInv
<1>1. PICK r \in [Clients -> Requests] :
        client = [c \in Clients |-> [request |-> r[c], phase |-> "idle", host |-> None, stop |-> FALSE]]
    BY DEF Docker!Init
<1>2. \A h \in Docker!AllHosts : Guests(h) = {}
    BY <1>1 DEF Guests, Docker!ContainersAssumption
<1>3. ClientsTypes /\ Hosted
    BY <1>1 DEF Docker!Init, ClientsTypes, Hosted, Client, Phases, Docker!ContainersAssumption,
       Docker!AllHosts
<1>4. Booked
    BY <1>2 DEF Docker!Init, Booked
<1>5. \A h \in Hosts : DOMAIN slots[h] = {} /\ Docker!CoresOf(h) = {} /\ h \in Docker!AllHosts
    BY DEF Docker!Init, Docker!CoresOf, Docker!AllHosts
<1>6. Docker!NoOvercommit
  <2>1. Docker!Cardinality({}) = 0
      BY FS_EmptySet, DockerSets
  <2>2. \A h \in Hosts : Docker!Cardinality(DOMAIN slots[h]) = 0 /\ Docker!InUse(h) = 0
      BY <1>5, <2>1 DEF Docker!InUse
  <2> QED
      BY <2>2 DEF Docker!NoOvercommit, Docker!ContainersAssumption
<1>7. Docker!NoSlotMissed /\ Docker!NothingLeaks
    BY <1>1, <1>2 DEF Docker!Init, Docker!NoSlotMissed, Docker!NothingLeaks, Guests
<1> QED
    BY <1>3, <1>4, <1>6, <1>7 DEF ClientsInv, Docker!ContainersAccounted

\* What a step leaves when no slot is given or taken.
LEMMA SameSlots ==
  ASSUME ClientsInv, UNCHANGED slots, ClientsTypes', Hosted',
         \A c \in Clients : /\ UNCHANGED <<client[c].request, client[c].host>>
                            /\ client'[c].phase = "waiting" /\ client[c].phase # "waiting" =>
                                 \A h \in Docker!Group(c) : ~Docker!HasSlots(h, client[c].request.cores),
         Cared'
  PROVE  ClientsInv'
<1>1. \A h : Guests(h)' = Guests(h)
    BY DEF Guests
<1>2. Booked'
  <2>1. \A h \in Docker!AllHosts : [c \in Guests(h) |-> client'[c].request.cores]
                            = [c \in Guests(h) |-> client[c].request.cores]
      BY DEF Guests
  <2> QED
      BY <1>1, <2>1 DEF ClientsInv, Booked
<1>3. Docker!NoOvercommit'
    BY DEF ClientsInv, Docker!ContainersAccounted, Docker!NoOvercommit, Docker!InUse,
       Docker!CoresOf
<1>4. Docker!NoSlotMissed'
  <2> SUFFICES ASSUME NEW c \in Clients, client'[c].phase = "waiting", NEW h \in Docker!Group(c)'
               PROVE  ~Docker!HasSlots(h, client[c].request.cores)'
      BY DEF Docker!NoSlotMissed
  <2>1. h \in Docker!Group(c) /\ client'[c].request = client[c].request
      BY DEF Docker!Group
  <2>2. ~Docker!HasSlots(h, client[c].request.cores)
      BY <2>1 DEF ClientsInv, Docker!ContainersAccounted, Docker!NoSlotMissed
  <2>3. Docker!HasSlots(h, client[c].request.cores)' = Docker!HasSlots(h, client[c].request.cores)
      BY <2>1 DEF Docker!HasSlots, Docker!InUse, Docker!CoresOf
  <2> QED
      BY <2>2, <2>3
<1>5. Docker!NothingLeaks'
    BY <1>1 DEF Cared, ClientsInv, Docker!ContainersAccounted, Docker!NothingLeaks, Guests
<1> QED
    BY <1>2, <1>3, <1>4, <1>5 DEF ClientsInv, Docker!ContainersAccounted

\* Where a client goes that keeps what it has: its phase, and whether it is to stop.
LEMMA Goes ==
  ASSUME ClientsInv, NEW c \in Clients, NEW p \in Phases, NEW b \in BOOLEAN,
         client' = [client EXCEPT ![c].phase = p, ![c].stop = b], containers' \subseteq Clients
  PROVE  /\ ClientsTypes' /\ \A x \in Clients : UNCHANGED <<client[x].request, client[x].host>>
         /\ client'[c].phase = p /\ \A x \in Clients \ {c} : client'[x] = client[x]
    BY DEF ClientsInv, ClientsTypes, Client

LEMMA GoesOn ==
  ASSUME ClientsInv, NEW c \in Clients, NEW p \in Phases,
         client' = [client EXCEPT ![c].phase = p], containers' \subseteq Clients
  PROVE  /\ ClientsTypes' /\ \A x \in Clients : UNCHANGED <<client[x].request, client[x].host>>
         /\ client'[c].phase = p /\ \A x \in Clients \ {c} : client'[x] = client[x]
    BY DEF ClientsInv, ClientsTypes, Client

\* The steps of a client in its scope.
InScope == {"scoped", "launching", "running", "killing", "leaving"}

LEMMA ScopeStep ==
  ASSUME ClientsInv, NEW c \in Clients, NEW p \in InScope, client[c].phase \in InScope,
         ClientsTypes', \A x \in Clients : UNCHANGED <<client[x].request, client[x].host>>,
         client'[c].phase = p, \A x \in Clients \ {c} : client'[x] = client[x],
         UNCHANGED slots, processes' \subseteq processes \cup {c}, stray \subseteq stray',
         containers' \ {c} \subseteq containers,
         c \in containers' => p \in {"launching", "running", "killing"} \/ c \in stray'
  PROVE  ClientsInv'
<1>1. Hosted'
    BY DEF ClientsInv, Hosted, InScope, Docker!Group
<1>2. client[c].host # None
    BY DEF ClientsInv, Hosted, InScope
<1>3. Cared'
  <2>1. processes' \subseteq {x \in Clients : client'[x].host # None \/ client'[x].phase = "ending"}
      BY <1>2 DEF ClientsInv, Docker!ContainersAccounted, Docker!NothingLeaks
  <2>2. \A x \in containers' :
          client'[x].phase \in {"launching", "running", "killing"} \/ x \in stray'
      BY DEF ClientsInv, Docker!ContainersAccounted, Docker!NothingLeaks, ClientsTypes
  <2> QED
      BY <2>1, <2>2 DEF Cared
<1>4. \A x \in Clients : client'[x].phase = "waiting" => client[x].phase = "waiting"
    BY DEF InScope
<1> QED
    BY <1>1, <1>3, <1>4, SameSlots

LEMMA ScopeSteps ==
  ASSUME ClientsInv, NEW c \in Clients,
         \/ Docker!Launch(c) \/ Docker!Up(c) \/ Docker!ReadId(c) \/ Docker!LaunchFails(c)
         \/ Docker!SpawnTimeout(c) \/ Docker!Finish(c) \/ Docker!Kill(c)
  PROVE  ClientsInv'
<1> USE DEF InScope, Phases
<1>1. containers \subseteq Clients
    BY DEF ClientsInv, ClientsTypes
<1>2. CASE Docker!Launch(c)
    BY <1>1, <1>2, GoesOn, ScopeStep DEF Docker!Launch, ClientsInv, Docker!ContainersAccounted,
       Docker!NothingLeaks
<1>3. CASE Docker!Up(c)
  <2>1. ClientsTypes'
      BY <1>1, <1>3 DEF Docker!Up, ClientsInv, ClientsTypes
  <2> QED
      BY <1>3, <2>1, ScopeStep DEF Docker!Up
<1>4. CASE Docker!ReadId(c)
    BY <1>1, <1>4, GoesOn, ScopeStep DEF Docker!ReadId, Docker!Launched
<1>5. CASE Docker!LaunchFails(c)
    BY <1>1, <1>5, GoesOn, ScopeStep DEF Docker!LaunchFails
<1>6. CASE Docker!Finish(c)
    BY <1>1, <1>6, GoesOn, ScopeStep DEF Docker!Finish
<1>7. CASE Docker!Kill(c)
    BY <1>1, <1>7, GoesOn, ScopeStep DEF Docker!Kill
<1>8. CASE Docker!SpawnTimeout(c)
    BY <1>1, <1>8, GoesOn, ScopeStep DEF Docker!SpawnTimeout
<1> QED
    BY <1>2, <1>3, <1>4, <1>5, <1>6, <1>7, <1>8

\* A container nobody waits for comes up; processes end, and what they run with them or not.
LEMMA LateSteps ==
  ASSUME ClientsInv, NEW c \in Clients, Docker!UpLate(c) \/ Docker!EndProcesses(c)
  PROVE  ClientsInv'
<1>1. CASE Docker!UpLate(c)
  <2>1. UNCHANGED <<client, slots, processes, stray>> /\ containers' = containers \cup {c}
        /\ c \in stray
      BY <1>1 DEF Docker!UpLate
  <2>2. ClientsTypes' /\ Hosted'
      BY <2>1 DEF ClientsInv, ClientsTypes, Hosted, Docker!Group
  <2>3. Cared'
      BY <2>1 DEF Cared, ClientsInv, Docker!ContainersAccounted, Docker!NothingLeaks
  <2> QED
      BY <2>1, <2>2, <2>3, SameSlots
<1>2. CASE Docker!EndProcesses(c)
  <2>1. /\ client[c].phase = "ending" /\ client' = [client EXCEPT ![c].phase = "done"]
        /\ UNCHANGED <<slots, stray>> /\ processes' = processes \ {c}
        /\ containers' \subseteq containers
      BY <1>2 DEF Docker!EndProcesses
  <2>2. /\ ClientsTypes' /\ \A x \in Clients : UNCHANGED <<client[x].request, client[x].host>>
        /\ client'[c].phase = "done" /\ \A x \in Clients \ {c} : client'[x] = client[x]
    <3>1. "done" \in Phases /\ containers' \subseteq Clients
        BY <2>1 DEF ClientsInv, ClientsTypes, Phases
    <3> QED
        BY <2>1, <3>1, GoesOn
  <2>3. Hosted'
    <3>1. client[c].host = None
        BY <2>1 DEF ClientsInv, Hosted
    <3> QED
        BY <2>2, <3>1 DEF ClientsInv, Hosted, Docker!Group
  <2>4. Cared'
      BY <2>1, <2>2 DEF Cared, ClientsInv, ClientsTypes, Docker!ContainersAccounted,
         Docker!NothingLeaks
  <2>5. \A x \in Clients : client'[x].phase = "waiting" => client[x].phase = "waiting"
      BY <2>2
  <2> QED
      BY <2>1, <2>2, <2>3, <2>4, <2>5, SameSlots
<1> QED
    BY <1>1, <1>2

\* Cancelled or timed out: before its scope a client is done, in it it leaves or kills.
LEMMA StopStep == ASSUME ClientsInv, NEW c \in Clients, Docker!Stop(c) PROVE ClientsInv'
<1>1. UNCHANGED <<slots, containers, processes, stray>>
    BY DEF Docker!Stop
<1>2. PICK p \in Phases, b \in BOOLEAN :
        /\ client' = [client EXCEPT ![c].phase = p, ![c].stop = b]
        /\ \/ client[c].phase \in {"asking", "waiting"} /\ p = "done"
           \/ client[c].phase = "scoped" /\ p = "leaving"
           \/ client[c].phase = "launching" /\ p = "launching"
           \/ client[c].phase = "running" /\ p = "killing"
  <2> DEFINE p == CASE client[c].phase \in {"asking", "waiting"} -> "done"
                    [] client[c].phase = "scoped" -> "leaving"
                    [] client[c].phase = "launching" -> "launching"
                    [] OTHER -> "killing"
             b == client[c].phase = "launching"
  <2>1. client' = [client EXCEPT ![c].phase = p, ![c].stop = b]
      BY DEF Docker!Stop, ClientsInv, ClientsTypes
  <2>2. /\ p \in Phases
        /\ \/ client[c].phase \in {"asking", "waiting"} /\ p = "done"
           \/ client[c].phase = "scoped" /\ p = "leaving"
           \/ client[c].phase = "launching" /\ p = "launching"
           \/ client[c].phase = "running" /\ p = "killing"
      BY DEF Docker!Stop, Phases
  <2> HIDE DEF p, b
  <2>3. b \in BOOLEAN
      BY DEF b
  <2> QED
      BY <2>1, <2>2, <2>3
<1>3. /\ ClientsTypes' /\ \A x \in Clients : UNCHANGED <<client[x].request, client[x].host>>
      /\ client'[c].phase = p /\ \A x \in Clients \ {c} : client'[x] = client[x]
  <2>1. containers' \subseteq Clients
      BY <1>1 DEF ClientsInv, ClientsTypes
  <2> QED
      BY <1>2, <2>1, Goes
<1>4. Hosted'
  <2>1. p = "done" => client[c].host = None
      BY <1>2 DEF ClientsInv, Hosted
  <2>2. p \in InScope => client[c].host # None
      BY <1>2 DEF ClientsInv, Hosted, InScope
  <2>3. p \in InScope \cup {"done"}
      BY <1>2 DEF InScope
  <2> QED
      BY <1>3, <2>1, <2>2, <2>3 DEF ClientsInv, Hosted, InScope, Docker!Group
<1>5. \A x \in containers' :
        client'[x].phase \in {"launching", "running", "killing"} \/ x \in stray'
    BY <1>1, <1>2, <1>3 DEF ClientsInv, Docker!ContainersAccounted, Docker!NothingLeaks,
       ClientsTypes
<1>6. \A x \in Clients : client'[x].phase = "waiting" => client[x].phase = "waiting"
    BY <1>2, <1>3
<1>7. processes' \subseteq {x \in Clients : client'[x].host # None \/ client'[x].phase = "ending"}
    BY <1>1, <1>2, <1>3 DEF ClientsInv, Docker!ContainersAccounted, Docker!NothingLeaks
<1> QED
    BY <1>1, <1>3, <1>4, <1>5, <1>6, <1>7, SameSlots DEF Cared

\* A client begins to ask, or finds no host and waits.
LEMMA AskingStep ==
  ASSUME ClientsInv, NEW c \in Clients, NEW p \in {"asking", "waiting"},
         client[c].phase \in {"idle", "asking"},
         \A h \in Docker!Group(c) : client[c].request.cores <= h.cores,
         p = "waiting" => \A h \in Docker!Group(c) : ~Docker!HasSlots(h, client[c].request.cores),
         client' = [client EXCEPT ![c].phase = p], UNCHANGED <<slots, containers, processes, stray>>
  PROVE  ClientsInv'
<1>1. /\ ClientsTypes' /\ \A x \in Clients : UNCHANGED <<client[x].request, client[x].host>>
      /\ client'[c].phase = p /\ \A x \in Clients \ {c} : client'[x] = client[x]
  <2>1. p \in Phases /\ containers' \subseteq Clients
      BY DEF ClientsInv, ClientsTypes, Phases
  <2> QED
      BY <2>1, GoesOn
<1>2. Hosted'
  <2>1. client[c].host = None
      BY DEF ClientsInv, Hosted
  <2> QED
      BY <1>1, <2>1 DEF ClientsInv, Hosted, Docker!Group
<1>3. Cared'
    BY <1>1 DEF Cared, ClientsInv, Docker!ContainersAccounted, Docker!NothingLeaks, ClientsTypes
<1> QED
    BY <1>1, <1>2, <1>3, SameSlots

\* A client gets a host: one it fits on, or the local one.
LEMMA GrantStep ==
  ASSUME Docker!ContainersAssumption, ClientsInv, NEW c \in Clients, NEW h \in Docker!AllHosts,
       Docker!Grant(c, h),
         client[c].phase \in {"idle", "asking"}, UNCHANGED <<containers, processes, stray>>,
         h \in Hosts => /\ client[c].request.cores <= h.cores
                        /\ Docker!HasSlots(h, client[c].request.cores)
  PROVE  ClientsInv'
<1> DEFINE k == client[c].request.cores
<1>0. k \in Nat /\ client[c].host = None /\ None \notin Docker!AllHosts
  <2>1. client[c].request \in Requests
      BY DEF ClientsInv, ClientsTypes, Client
  <2> QED
      BY <2>1 DEF ClientsInv, Hosted, Docker!ContainersAssumption
<1>1. /\ client' = [client EXCEPT ![c].phase = "scoped", ![c].host = h]
      /\ slots' = [slots EXCEPT ![h] = [x \in DOMAIN slots[h] \union {c} |-> IF x = c THEN k ELSE slots[h][x]]]
    BY DEF Docker!Grant
<1>2. /\ ClientsTypes' /\ \A x \in Clients : UNCHANGED client[x].request
      /\ client'[c].phase = "scoped" /\ client'[c].host = h
      /\ \A x \in Clients \ {c} : client'[x] = client[x]
    BY <1>1 DEF ClientsInv, ClientsTypes, Client, Phases
<1>3. Hosted'
    BY <1>0, <1>2 DEF ClientsInv, Hosted, Docker!Group
<1>4. /\ Guests(h)' = Guests(h) \cup {c} /\ c \notin Guests(h)
      /\ \A g \in Docker!AllHosts \ {h} : Guests(g)' = Guests(g)
    BY <1>0, <1>2 DEF Guests
<1>5. /\ DOMAIN slots' = Docker!AllHosts
      /\ slots'[h] = [x \in Guests(h) \cup {c} |-> IF x = c THEN k ELSE slots[h][x]]
      /\ \A g \in Docker!AllHosts \ {h} : slots'[g] = slots[g]
    BY <1>1 DEF ClientsInv, Booked
<1>6. Booked'
  <2>1. slots'[h] = [x \in Guests(h)' |-> client'[x].request.cores]
    <3>1. \A x \in Guests(h) \cup {c} : (IF x = c THEN k ELSE slots[h][x]) = client'[x].request.cores
      <4>1. \A x \in Guests(h) : slots[h][x] = client[x].request.cores
          BY DEF ClientsInv, Booked
      <4>2. \A x \in Guests(h) \cup {c} : client'[x].request.cores = client[x].request.cores
          BY <1>2 DEF Guests
      <4> QED
          BY <4>1, <4>2
    <3> QED
        BY <1>4, <1>5, <3>1
  <2>2. \A g \in Docker!AllHosts \ {h} : slots'[g] = [x \in Guests(g)' |-> client'[x].request.cores]
    <3> SUFFICES ASSUME NEW g \in Docker!AllHosts \ {h}
                 PROVE  slots[g] = [x \in Guests(g) |-> client'[x].request.cores]
        BY <1>4, <1>5
    <3>1. \A x \in Guests(g) : client'[x].request.cores = client[x].request.cores
        BY <1>2 DEF Guests
    <3> QED
        BY <3>1 DEF ClientsInv, Booked
  <2> QED
      BY <1>5, <2>1, <2>2 DEF Booked
<1>7. Docker!CoresOf(h)' = Docker!CoresOf(h) \cup ({c} \X (1..k)) /\ \A g \in Docker!AllHosts \ {h} : Docker!CoresOf(g)' = Docker!CoresOf(g)
  <2>1. DOMAIN slots[h] = Guests(h)
      BY DEF ClientsInv, Booked
  <2>2. /\ DOMAIN slots'[h] = DOMAIN slots[h] \cup {c} /\ slots'[h][c] = k
        /\ \A x \in DOMAIN slots[h] : slots'[h][x] = slots[h][x]
      BY <1>4, <1>5, <2>1
  <2>3. Docker!CoresOf(h)' = UNION {{x} \X (1..slots'[h][x]) : x \in DOMAIN slots[h] \cup {c}}
      BY <2>2 DEF Docker!CoresOf
  <2>4. \A x \in DOMAIN slots[h] : {x} \X (1..slots'[h][x]) = {x} \X (1..slots[h][x])
      BY <2>2
  <2>5. {c} \X (1..slots'[h][c]) = {c} \X (1..k)
      BY <2>2
  <2> HIDE DEF k
  <2>6. Docker!CoresOf(h)' = Docker!CoresOf(h) \cup ({c} \X (1..k))
      BY <2>3, <2>4, <2>5 DEF Docker!CoresOf
  <2>7. \A g \in Docker!AllHosts \ {h} : Docker!CoresOf(g)' = Docker!CoresOf(g)
      BY <1>5 DEF Docker!CoresOf
  <2> QED
      BY <2>6, <2>7
<1>8. \A g \in Hosts : Docker!InUse(g) \in Nat /\ Docker!InUse(g)' \in Nat /\ Docker!InUse(g) <= Docker!InUse(g)'
  <2> TAKE g \in Hosts
  <2>1. g.cores \in Nat
      BY DEF Docker!ContainersAssumption
  <2>2. /\ DOMAIN slots[g] \subseteq Clients
        /\ \A x \in DOMAIN slots[g] : slots[g][x] \in 0..g.cores
      BY SlotsFit DEF ClientsInv
  <2>3. /\ DOMAIN slots'[g] \subseteq Clients
        /\ \A x \in DOMAIN slots'[g] : slots'[g][x] \in 0..g.cores
    <3>1. CASE g # h
        BY <1>5, <2>2, <3>1 DEF Docker!AllHosts
    <3>2. CASE g = h
      <4>1. k \in 0..g.cores /\ DOMAIN slots[h] = Guests(h)
          BY <1>0, <2>1, <3>2 DEF ClientsInv, Booked
      <4>2. /\ DOMAIN slots'[h] = DOMAIN slots[h] \cup {c} /\ slots'[h][c] = k
            /\ \A x \in DOMAIN slots[h] : slots'[h][x] = slots[h][x]
          BY <1>4, <1>5, <4>1
      <4> QED
          BY <2>2, <3>2, <4>1, <4>2
    <3> QED
        BY <3>1, <3>2
  <2>4. Docker!IsFiniteSet(Docker!CoresOf(g)) /\ Docker!InUse(g) \in Nat
      BY <2>1, <2>2, CoresFinite DEF Docker!CoresOf, Docker!InUse
  <2>5. Docker!IsFiniteSet(Docker!CoresOf(g)') /\ Docker!InUse(g)' \in Nat
      BY <2>1, <2>3, CoresFinite DEF Docker!CoresOf, Docker!InUse
  <2>6. Docker!CoresOf(g) \subseteq Docker!CoresOf(g)'
      BY <1>7 DEF Docker!AllHosts
  <2>7. Docker!Cardinality(Docker!CoresOf(g)) <= Docker!Cardinality(Docker!CoresOf(g)')
      BY <2>5, <2>6, FS_Subset, DockerSets
  <2> QED
      BY <2>4, <2>5, <2>7 DEF Docker!InUse
<1>9. Docker!NoOvercommit'
  <2> SUFFICES ASSUME NEW g \in Hosts
               PROVE  IF g.group = "build" THEN Docker!Cardinality(DOMAIN slots'[g]) <= 1
                      ELSE Docker!InUse(g)' <= g.cores
      BY DEF Docker!NoOvercommit
  <2>1. CASE g # h
    <3>1. g \in Docker!AllHosts
        BY DEF Docker!AllHosts
    <3>2. slots'[g] = slots[g] /\ Docker!CoresOf(g)' = Docker!CoresOf(g)
        BY <1>5, <1>7, <2>1, <3>1
    <3> QED
        BY <3>2 DEF ClientsInv, Docker!ContainersAccounted, Docker!NoOvercommit, Docker!InUse
  <2>2. CASE g = h
    <3>1. Docker!HasSlots(h, k)
        BY <2>2
    <3>2. CASE h.cores = 0 \/ h.group = "build"
      <4>1. DOMAIN slots[h] = {}
          BY <3>1, <3>2 DEF Docker!HasSlots
      <4>2. DOMAIN slots'[h] = {c} /\ Docker!CoresOf(h) = {}
          BY <4>1, <1>1, <1>5 DEF Docker!CoresOf
      <4>3. Docker!Cardinality({c}) = 1
          BY FS_Singleton, DockerSets
      <4>4. Docker!InUse(h)' = k
        <5>1. Docker!CoresOf(h)' = {c} \X (1..k)
            BY <1>7, <4>2
        <5>2. Docker!Cardinality({c} \X (1..k)) = k
            BY <1>0, OneClient
        <5> QED
            BY <5>1, <5>2 DEF Docker!InUse
      <4> QED
          BY <2>2, <4>2, <4>3, <4>4
    <3>3. CASE h.cores # 0 /\ h.group # "build"
      <4>1. Docker!InUse(h) + k <= h.cores
          BY <3>1, <3>3 DEF Docker!HasSlots
      <4>2. Docker!IsFiniteSet(Docker!CoresOf(h))
        <5>1. h.cores \in Nat /\ h \in Hosts
            BY <2>2 DEF Docker!ContainersAssumption
        <5>2. /\ DOMAIN slots[h] \subseteq Clients
              /\ \A x \in DOMAIN slots[h] : slots[h][x] \in 0..h.cores
            BY <5>1, SlotsFit DEF ClientsInv
        <5> QED
            BY <5>1, <5>2, CoresFinite DEF Docker!CoresOf
      <4>3. Docker!Cardinality(Docker!CoresOf(h) \cup ({c} \X (1..k))) <= Docker!Cardinality(Docker!CoresOf(h)) + k
        <5>1. Docker!IsFiniteSet({c} \X (1..k)) /\ Docker!Cardinality({c} \X (1..k)) = k
            BY <1>0, OneClient
        <5> HIDE DEF k
        <5> QED
            BY <4>2, <5>1, ClientsUnion
      <4>4. Docker!InUse(h)' <= Docker!InUse(h) + k
          BY <1>7, <4>3 DEF Docker!InUse
      <4>5. Docker!InUse(h) \in Nat /\ Docker!InUse(h)' \in Nat /\ h.cores \in Nat
          BY <1>8, <2>2 DEF Docker!ContainersAssumption
      <4> HIDE DEF k
      <4> QED
          BY <1>0, <2>2, <3>3, <4>1, <4>4, <4>5
    <3> QED
        BY <3>2, <3>3
  <2> QED
      BY <2>1, <2>2
<1>10. Docker!NoSlotMissed'
  <2> SUFFICES ASSUME NEW x \in Clients, client'[x].phase = "waiting", NEW g \in Docker!Group(x)'
               PROVE  ~Docker!HasSlots(g, client[x].request.cores)'
      BY DEF Docker!NoSlotMissed
  <2>1. x # c /\ client'[x] = client[x] /\ g \in Docker!Group(x) /\ g \in Hosts
      BY <1>2 DEF Docker!Group
  <2>2. ~Docker!HasSlots(g, client[x].request.cores)
      BY <2>1 DEF ClientsInv, Docker!ContainersAccounted, Docker!NoSlotMissed
  <2>3. client[x].request.cores \in Nat /\ g.cores \in Nat /\ g \in Docker!AllHosts
    <3>1. client[x].request \in Requests
        BY DEF ClientsInv, ClientsTypes, Client
    <3> QED
        BY <2>1, <3>1 DEF Docker!ContainersAssumption, Docker!AllHosts
  <2>4. DOMAIN slots'[g] = {} => DOMAIN slots[g] = {}
      BY <1>5, <2>3
  <2>5. Docker!InUse(g) \in Nat /\ Docker!InUse(g)' \in Nat /\ Docker!InUse(g) <= Docker!InUse(g)'
      BY <1>8, <2>1
  <2> DEFINE n == client[x].request.cores
  <2>6. ~Docker!HasSlots(g, n)
      BY <2>2
  <2>7. Docker!HasSlots(g, client[x].request.cores)' <=>
          IF g.cores = 0 \/ g.group = "build" THEN DOMAIN slots'[g] = {}
          ELSE Docker!InUse(g)' + n <= g.cores
      BY <2>1 DEF Docker!HasSlots
  <2>8. n \in Nat
      BY <2>3
  <2> HIDE DEF n
  <2>9. ~(IF g.cores = 0 \/ g.group = "build" THEN DOMAIN slots'[g] = {}
          ELSE Docker!InUse(g)' + n <= g.cores)
      BY <2>3, <2>4, <2>5, <2>6, <2>8 DEF Docker!HasSlots
  <2> QED
      BY <2>7, <2>9
<1>11. Docker!NothingLeaks'
  <2>1. \A x \in containers' :
          client'[x].phase \in {"launching", "running", "killing"} \/ x \in stray'
      BY <1>2 DEF ClientsInv, Docker!ContainersAccounted, Docker!NothingLeaks, ClientsTypes
  <2>2. \A g \in Docker!AllHosts : DOMAIN slots'[g] = Guests(g)'
      BY <1>6 DEF Booked
  <2>3. processes' \subseteq {x \in Clients : client'[x].host # None \/ client'[x].phase = "ending"}
      BY <1>0, <1>2 DEF ClientsInv, Docker!ContainersAccounted, Docker!NothingLeaks
  <2> QED
      BY <2>1, <2>2, <2>3 DEF Docker!NothingLeaks, Guests
<1> QED
    BY <1>2, <1>3, <1>6, <1>9, <1>10, <1>11 DEF ClientsInv, Docker!ContainersAccounted

LEMMA AskStep ==
  ASSUME Docker!ContainersAssumption, ClientsInv, NEW c \in Clients, Docker!Ask(c)
  PROVE  ClientsInv'
<1>1. CASE Docker!Group(c) = {}
  <2>1. Docker!Grant(c, Docker!LocalHost) /\ UNCHANGED <<containers, processes, stray>> /\ client[c].phase = "idle"
      BY <1>1 DEF Docker!Ask
  <2>2. Docker!LocalHost \in Docker!AllHosts /\ Docker!LocalHost \notin Hosts
      BY DEF Docker!AllHosts, Docker!ContainersAssumption
  <2> QED
      BY <2>1, <2>2, GrantStep
<1>2. CASE Docker!Group(c) # {}
    BY <1>2, AskingStep DEF Docker!Ask
<1> QED
    BY <1>1, <1>2

LEMMA AllocStep ==
  ASSUME Docker!ContainersAssumption, ClientsInv, NEW c \in Clients, Docker!Alloc(c)
  PROVE  ClientsInv'
<1> DEFINE fitting == {h \in Docker!Group(c) : Docker!HasSlots(h, client[c].request.cores)}
<1>1. client[c].phase = "asking" /\ UNCHANGED <<containers, processes, stray>>
    BY DEF Docker!Alloc
<1>2. \A h \in Docker!Group(c) : client[c].request.cores <= h.cores /\ h \in Hosts /\ h \in Docker!AllHosts
    BY <1>1 DEF ClientsInv, Hosted, Docker!Group, Docker!AllHosts
<1>3. CASE fitting = {}
  <2>1. client' = [client EXCEPT ![c].phase = "waiting"] /\ UNCHANGED slots
      BY <1>3 DEF Docker!Alloc
  <2> QED
      BY <1>1, <1>2, <1>3, <2>1, AskingStep
<1>4. CASE fitting # {}
  <2>1. PICK h \in fitting : Docker!Grant(c, h)
      BY <1>4 DEF Docker!Alloc
  <2> QED
      BY <1>1, <1>2, <2>1, GrantStep
<1> QED
    BY <1>3, <1>4

\* A client gives its host back and everybody who waits asks again.
LEMMA FreeStep ==
  ASSUME Docker!ContainersAssumption, ClientsInv, NEW c \in Clients, Docker!Free(c)
  PROVE  ClientsInv'
<1>0. PICK h \in Docker!AllHosts : h = client[c].host /\ h # None /\ None \notin Docker!AllHosts
  <2>1. client[c].host \in Docker!AllHosts \cup {None}
      BY DEF ClientsInv, ClientsTypes, Client
  <2> QED
      BY <2>1 DEF Docker!Free, ClientsInv, Hosted, Docker!ContainersAssumption
<1>1. /\ client[c].phase = "leaving"
      /\ slots' = [slots EXCEPT ![h] = [x \in DOMAIN slots[h] \ {c} |-> slots[h][x]]]
      /\ UNCHANGED <<containers, processes, stray>>
    BY <1>0 DEF Docker!Free
<1>2. /\ client' = [x \in Clients |-> client'[x]]
      /\ client'[c] = [client[c] EXCEPT !.phase = "ending", !.host = None, !.stop = FALSE]
      /\ \A x \in Clients \ {c} :
           client'[x] = IF client[x].phase = "waiting" THEN [client[x] EXCEPT !.phase = "asking"]
                        ELSE client[x]
    BY DEF Docker!Free, Docker!Told
<1>3. /\ client'[c].phase = "ending" /\ client'[c].host = None
      /\ client'[c].request = client[c].request /\ client'[c] \in Client
  <2>1. client[c] \in Client
      BY DEF ClientsInv, ClientsTypes
  <2> QED
      BY <1>2, <2>1 DEF Client, Phases
<1>4. \A x \in Clients \ {c} :
        /\ client'[x] \in Client
        /\ client'[x].request = client[x].request /\ client'[x].host = client[x].host
        /\ client'[x].phase = IF client[x].phase = "waiting" THEN "asking" ELSE client[x].phase
  <2> TAKE x \in Clients \ {c}
  <2>1. client[x] \in Client
      BY DEF ClientsInv, ClientsTypes
  <2> QED
      BY <1>2, <2>1 DEF Client, Phases
<1>5. ClientsTypes'
  <2>1. \A x \in Clients : client'[x] \in Client
      BY <1>3, <1>4
  <2> QED
      BY <1>1, <1>2, <2>1 DEF ClientsTypes, ClientsInv
<1>6. Hosted'
  <2> SUFFICES ASSUME NEW x \in Clients
               PROVE  /\ client'[x].host = None
                         <=> client'[x].phase \in {"idle", "asking", "waiting", "ending", "done"}
                      /\ client'[x].host \in Hosts => client'[x].request.cores <= client'[x].host.cores
                      /\ client'[x].phase \in {"asking", "waiting"} =>
                           \A g \in Hosts : g.group = client'[x].request.group =>
                             client'[x].request.cores <= g.cores
      BY DEF Hosted, Docker!Group
  <2>1. CASE x = c
      BY <1>0, <1>3, <2>1 DEF Docker!AllHosts
  <2>2. CASE x # c
      BY <1>4, <2>2 DEF ClientsInv, Hosted, Docker!Group
  <2> QED
      BY <2>1, <2>2
<1>7. /\ Guests(h)' = Guests(h) \ {c}
      /\ \A g \in Docker!AllHosts \ {h} : Guests(g)' = Guests(g)
  <2>1. \A x \in Clients : x \in Guests(h)' <=> x \in Guests(h) /\ x # c
      BY <1>0, <1>3, <1>4 DEF Guests
  <2>2. ASSUME NEW g \in Docker!AllHosts \ {h}, NEW x \in Clients
        PROVE  client'[x].host = g <=> client[x].host = g
    <3>1. CASE x = c
        BY <1>0, <1>3, <3>1
    <3>2. CASE x # c
        BY <1>4, <3>2
    <3> QED
        BY <3>1, <3>2
  <2> QED
      BY <2>1, <2>2 DEF Guests
<1>8. /\ DOMAIN slots' = Docker!AllHosts
      /\ slots'[h] = [x \in Guests(h) \ {c} |-> slots[h][x]]
      /\ \A g \in Docker!AllHosts \ {h} : slots'[g] = slots[g]
    BY <1>0, <1>1 DEF ClientsInv, Booked
<1>9. Booked'
  <2>1. slots'[h] = [x \in Guests(h)' |-> client'[x].request.cores]
    <3>1. \A x \in Guests(h) \ {c} : slots[h][x] = client'[x].request.cores
      <4>1. \A x \in Guests(h) : slots[h][x] = client[x].request.cores
          BY <1>0 DEF ClientsInv, Booked
      <4>2. \A x \in Guests(h) \ {c} : client'[x].request.cores = client[x].request.cores
          BY <1>4 DEF Guests
      <4> QED
          BY <4>1, <4>2
    <3> QED
        BY <1>7, <1>8, <3>1
  <2>2. \A g \in Docker!AllHosts \ {h} : slots'[g] = [x \in Guests(g)' |-> client'[x].request.cores]
    <3> SUFFICES ASSUME NEW g \in Docker!AllHosts \ {h}
                 PROVE  slots[g] = [x \in Guests(g) |-> client'[x].request.cores]
        BY <1>7, <1>8
    <3>1. \A x \in Guests(g) : client'[x].request.cores = client[x].request.cores
        BY <1>3, <1>4 DEF Guests
    <3> QED
        BY <3>1 DEF ClientsInv, Booked
  <2>3. \A g \in Docker!AllHosts : slots'[g] = [x \in Guests(g)' |-> client'[x].request.cores]
      BY <2>1, <2>2
  <2> QED
      BY <1>8, <2>3 DEF Booked
<1>10. Docker!NoOvercommit'
  <2> SUFFICES ASSUME NEW g \in Hosts
               PROVE  IF g.group = "build" THEN Docker!Cardinality(DOMAIN slots'[g]) <= 1
                      ELSE Docker!InUse(g)' <= g.cores
      BY DEF Docker!NoOvercommit
  <2>1. IF g.group = "build" THEN Docker!Cardinality(DOMAIN slots[g]) <= 1 ELSE Docker!InUse(g) <= g.cores
      BY DEF ClientsInv, Docker!ContainersAccounted, Docker!NoOvercommit
  <2>2. /\ DOMAIN slots'[g] \subseteq DOMAIN slots[g]
        /\ \A x \in DOMAIN slots'[g] : slots'[g][x] = slots[g][x]
    <3>1. g \in Docker!AllHosts
        BY DEF Docker!AllHosts
    <3>2. CASE g # h
        BY <1>8, <3>1, <3>2
    <3>3. CASE g = h
      <4>1. DOMAIN slots[h] = Guests(h)
          BY <1>0 DEF ClientsInv, Booked
      <4> QED
          BY <1>8, <3>3, <4>1
    <3> QED
        BY <3>2, <3>3
  <2>3. Docker!CoresOf(g)' \subseteq Docker!CoresOf(g)
      BY <2>2 DEF Docker!CoresOf
  <2>4. /\ DOMAIN slots[g] \subseteq Clients /\ g.cores \in Nat
        /\ \A x \in DOMAIN slots[g] : slots[g][x] \in 0..g.cores
      BY SlotsFit DEF ClientsInv, Docker!ContainersAssumption
  <2>5. Docker!IsFiniteSet(Docker!CoresOf(g)) /\ Docker!IsFiniteSet(DOMAIN slots[g])
    <3>1. Docker!IsFiniteSet(Docker!CoresOf(g))
        BY <2>4, CoresFinite DEF Docker!CoresOf
    <3>2. Docker!IsFiniteSet(DOMAIN slots[g])
        BY <2>4, ClientsSubset DEF Docker!ContainersAssumption
    <3> QED
        BY <3>1, <3>2
  <2>6. /\ Docker!InUse(g)' \in Nat /\ Docker!InUse(g) \in Nat /\ Docker!InUse(g)' <= Docker!InUse(g)
      BY <2>3, <2>5, ClientsSubset DEF Docker!InUse
  <2>7. /\ Docker!Cardinality(DOMAIN slots'[g]) \in Nat /\ Docker!Cardinality(DOMAIN slots[g]) \in Nat
        /\ Docker!Cardinality(DOMAIN slots'[g]) <= Docker!Cardinality(DOMAIN slots[g])
      BY <2>2, <2>5, ClientsSubset
  <2> QED
      BY <2>1, <2>4, <2>6, <2>7
<1>11. Docker!NoSlotMissed'
    BY <1>3, <1>4 DEF Docker!NoSlotMissed
<1>12. Docker!NothingLeaks'
  <2>1. \A x \in containers' :
          client'[x].phase \in {"launching", "running", "killing"} \/ x \in stray'
      BY <1>1, <1>4 DEF ClientsInv, Docker!ContainersAccounted, Docker!NothingLeaks, ClientsTypes
  <2>2. \A g \in Docker!AllHosts : DOMAIN slots'[g] = Guests(g)'
      BY <1>9 DEF Booked
  <2>3. processes' \subseteq {x \in Clients : client'[x].host # None \/ client'[x].phase = "ending"}
      BY <1>1, <1>3, <1>4 DEF ClientsInv, Docker!ContainersAccounted, Docker!NothingLeaks
  <2> QED
      BY <2>1, <2>2, <2>3 DEF Docker!NothingLeaks, Guests
<1> QED
    BY <1>5, <1>6, <1>9, <1>10, <1>11, <1>12 DEF ClientsInv, Docker!ContainersAccounted

LEMMA ClientsNext ==
  ASSUME Docker!ContainersAssumption, ClientsInv, [Docker!Next]_(Docker!containerVars)
  PROVE  ClientsInv'
<1>1. CASE UNCHANGED Docker!containerVars
  <2>1. UNCHANGED <<client, slots, containers, processes, stray>>
      BY <1>1 DEF Docker!containerVars
  <2>2. ClientsTypes' /\ Hosted'
      BY <2>1 DEF ClientsInv, ClientsTypes, Hosted, Docker!Group
  <2>3. Cared'
      BY <2>1 DEF Cared, ClientsInv, Docker!ContainersAccounted, Docker!NothingLeaks
  <2> QED
      BY <2>1, <2>2, <2>3, SameSlots
<1> QED
    BY <1>1, AskStep, AllocStep, FreeStep, ScopeSteps, LateSteps, StopStep DEF Docker!Next

(***************************************************************************)
(* The corpus of a harness (crs/modules/fuzzing.py).                       *)
(***************************************************************************)
\* The records, and what they are apart from what they hold.
CorpusTypes ==
  /\ min = [at |-> min.at, known |-> min.known, remove |-> min.remove]
  /\ writing = [found |-> writing.found, added |-> writing.added]

\* What is in the set, or will be, was on disk once, or its copy failed.
OnceWritten ==
  Kept!CoverOf(seeds \cup writing.found \cup writing.added) \subseteq covered \cup Kept!CoverOf(mislaid)

\* The merge has files, which stay, and they and the files it does not know cover all it knows,
\* but for what is mislaid.
MergeCovers ==
  min.at = "merging" =>
    /\ min.remove \subseteq min.known \cap files
    /\ Kept!CoverOf(min.known) \subseteq Kept!CoverOf(min.remove)
                                          \cup Kept!CoverOf((files \ min.known) \cup mislaid)

\* What is about to be removed is covered by what stays, or counts as mislaid.
RestCovers ==
  min.at = "unlinking" =>
    Kept!CoverOf(min.remove) \subseteq Kept!CoverOf((files \ min.remove) \cup mislaid)

CorpusInv == CorpusTypes /\ OnceWritten /\ MergeCovers /\ RestCovers /\ Kept!CoverageKept

LEMMA CoverMono ==
  ASSUME NEW S, NEW T, S \subseteq T
  PROVE  Kept!CoverOf(S) \subseteq Kept!CoverOf(T)
    BY DEF Kept!CoverOf

LEMMA CoverBoth ==
  ASSUME NEW S, NEW T
  PROVE  Kept!CoverOf(S \cup T) = Kept!CoverOf(S) \cup Kept!CoverOf(T)
    BY DEF Kept!CoverOf

LEMMA CoverWithin ==
  ASSUME NEW S, NEW T, NEW U, S \subseteq T \cup U
  PROVE  Kept!CoverOf(S) \subseteq Kept!CoverOf(T) \cup Kept!CoverOf(U)
    BY DEF Kept!CoverOf

LEMMA CorpusInit == ASSUME Kept!Init PROVE CorpusInv
<1>1. Kept!CoverOf({}) = {}
    BY DEF Kept!CoverOf
<1>2. seeds \cup writing.found \cup writing.added = {}
    BY DEF Kept!Init
<1>3. CorpusTypes /\ MergeCovers /\ RestCovers
    BY DEF Kept!Init, Kept!Idle, CorpusTypes, MergeCovers, RestCovers
<1> QED
    BY <1>1, <1>2, <1>3 DEF Kept!Init, CorpusInv, OnceWritten, Kept!CoverageKept

\* Files are added to what is on disk and to its history, others are mislaid.
LEMMA FilesAdded ==
  ASSUME CorpusInv, NEW new, NEW away, Kept!Written(new), mislaid' = mislaid \cup away,
         UNCHANGED <<seeds, min>>, CorpusTypes',
         writing'.found \cup writing'.added
           \subseteq writing.found \cup writing.added \cup new \cup away
  PROVE  CorpusInv'
<1>1. files \subseteq files' /\ covered' = covered \cup Kept!CoverOf(new) /\ files' = files \cup new
    BY DEF Kept!Written
<1>2. Kept!CoverageKept'
  <2>1. Kept!CoverOf(files') = Kept!CoverOf(files) \cup Kept!CoverOf(new)
      BY <1>1, CoverBoth
  <2>2. Kept!CoverOf(files \cup mislaid) \subseteq Kept!CoverOf(files' \cup mislaid')
      BY <1>1, CoverMono
  <2>3. Kept!CoverOf(new) \subseteq Kept!CoverOf(files' \cup mislaid')
      BY <1>1, CoverMono
  <2> QED
      BY <1>1, <2>1, <2>2, <2>3 DEF CorpusInv, Kept!CoverageKept
<1>3. OnceWritten'
  <2>1. seeds' \cup writing'.found \cup writing'.added
          \subseteq (seeds \cup writing.found \cup writing.added) \cup (new \cup away)
      OBVIOUS
  <2>2. Kept!CoverOf(seeds' \cup writing'.found \cup writing'.added)
          \subseteq Kept!CoverOf(seeds \cup writing.found \cup writing.added)
                      \cup Kept!CoverOf(new \cup away)
      BY <2>1, CoverWithin
  <2>3. Kept!CoverOf(new \cup away) = Kept!CoverOf(new) \cup Kept!CoverOf(away)
      BY CoverBoth
  <2>4. Kept!CoverOf(mislaid') = Kept!CoverOf(mislaid) \cup Kept!CoverOf(away)
      BY CoverBoth
  <2> QED
      BY <1>1, <2>2, <2>3, <2>4 DEF CorpusInv, OnceWritten
<1>4. MergeCovers'
  <2>1. Kept!CoverOf((files \ min.known) \cup mislaid)
          \subseteq Kept!CoverOf((files' \ min.known) \cup mislaid')
      BY <1>1, CoverMono
  <2> QED
      BY <1>1, <2>1 DEF CorpusInv, MergeCovers
<1>5. RestCovers'
  <2>1. Kept!CoverOf((files \ min.remove) \cup mislaid)
          \subseteq Kept!CoverOf((files' \ min.remove) \cup mislaid')
      BY <1>1, CoverMono
  <2> QED
      BY <1>1, <2>1 DEF CorpusInv, RestCovers
<1> QED
    BY <1>2, <1>3, <1>4, <1>5 DEF CorpusInv

\* The set changes, or what waits for it, and holds nothing that was not written or mislaid;
\* the minimisation stays where it is, or ends, or has not begun.
LEMMA SetChanged ==
  ASSUME CorpusInv, UNCHANGED <<files, covered, mislaid>>, CorpusTypes',
         min' = min \/ min'.at \notin {"merging", "unlinking"},
         seeds' \cup writing'.found \cup writing'.added
           \subseteq seeds \cup writing.found \cup writing.added \cup files
  PROVE  CorpusInv'
<1>1. OnceWritten'
  <2>1. Kept!CoverOf(seeds' \cup writing'.found \cup writing'.added)
          \subseteq Kept!CoverOf(seeds \cup writing.found \cup writing.added) \cup Kept!CoverOf(files)
      BY CoverWithin
  <2> QED
      BY <2>1 DEF CorpusInv, OnceWritten, Kept!CoverageKept
<1> QED
    BY <1>1 DEF CorpusInv, MergeCovers, RestCovers, Kept!CoverageKept

LEMMA FileSteps ==
  ASSUME CorpusInv,
         Kept!Harvest \/ Kept!Unzip \/ Kept!GatherLocalSeeds \/ \E s \in Seeds : Kept!WriteSeed(s)
  PROVE  CorpusInv'
<1>1. CASE Kept!Harvest
  <2>1. PICK new : Kept!Written(new) /\ writing' = [writing EXCEPT !.found = new]
      BY <1>1 DEF Kept!Harvest
  <2>2. CorpusTypes' /\ writing'.found = new /\ writing'.added = writing.added
      BY <1>1, <2>1 DEF Kept!Harvest, CorpusInv, CorpusTypes
  <2>3. mislaid' = mislaid \cup {}
      BY <1>1 DEF Kept!Harvest
  <2> QED
      BY <1>1, <2>1, <2>2, <2>3, FilesAdded DEF Kept!Harvest
<1>2. CASE Kept!Unzip
  <2>1. PICK s : Kept!Written({s})
      BY <1>2 DEF Kept!Unzip
  <2>2. CorpusTypes' /\ mislaid' = mislaid \cup {}
      BY <1>2 DEF Kept!Unzip, CorpusInv, CorpusTypes
  <2> QED
      BY <1>2, <2>1, <2>2, FilesAdded DEF Kept!Unzip
<1>3. CASE Kept!GatherLocalSeeds
  <2>1. PICK new, copied :
          /\ Kept!Written(copied) /\ mislaid' = mislaid \cup (new \ copied)
          /\ writing' = [writing EXCEPT !.added = new]
      BY <1>3 DEF Kept!GatherLocalSeeds
  <2>2. CorpusTypes' /\ writing'.added = new /\ writing'.found = writing.found
      BY <1>3, <2>1 DEF Kept!GatherLocalSeeds, CorpusInv, CorpusTypes
  <2> QED
      BY <1>3, <2>1, <2>2, FilesAdded DEF Kept!GatherLocalSeeds
<1>4. ASSUME NEW s \in Seeds, Kept!WriteSeed(s) PROVE CorpusInv'
  <2>1. Kept!Written({s}) /\ writing' = [writing EXCEPT !.added = {s}]
      BY <1>4 DEF Kept!WriteSeed
  <2>2. CorpusTypes' /\ writing'.added = {s} /\ writing'.found = writing.found
      BY <1>4, <2>1 DEF Kept!WriteSeed, CorpusInv, CorpusTypes
  <2>3. mislaid' = mislaid \cup {}
      BY <1>4 DEF Kept!WriteSeed
  <2> QED
      BY <1>4, <2>1, <2>2, <2>3, FilesAdded DEF Kept!WriteSeed
<1> QED
    BY <1>1, <1>2, <1>3, <1>4

LEMMA SetSteps ==
  ASSUME CorpusInv, Kept!AddSeed \/ Kept!AddSeedsBulk PROVE CorpusInv'
<1>1. CorpusTypes' /\ UNCHANGED <<files, covered, mislaid, min>>
    BY DEF Kept!AddSeed, Kept!AddSeedsBulk, CorpusInv, CorpusTypes
<1>2. seeds' \cup writing'.found \cup writing'.added
        \subseteq seeds \cup writing.found \cup writing.added \cup files
    BY DEF Kept!AddSeed, Kept!AddSeedsBulk, CorpusInv, CorpusTypes
<1> QED
    BY <1>1, <1>2, SetChanged

\* Only the container of the fuzzer changes.
LEMMA BoxSteps ==
  ASSUME CorpusInv,
         Kept!SyncToFuzzer \/ Kept!NewContainer \/ Kept!WipeStaleSeeds \/ \E s \in Seeds : Kept!Found(s)
  PROVE  CorpusInv'
<1>1. CorpusTypes' /\ UNCHANGED <<files, covered, mislaid, min, seeds, writing>>
    BY DEF Kept!SyncToFuzzer, Kept!NewContainer, Kept!WipeStaleSeeds, Kept!Found, CorpusInv,
       CorpusTypes
<1> QED
    BY <1>1, SetChanged

LEMMA StartMinimizeStep == ASSUME CorpusInv, Kept!StartMinimize PROVE CorpusInv'
<1>1. /\ min' = [at |-> "merging", known |-> seeds, remove |-> seeds \cap files]
      /\ UNCHANGED <<files, seeds, writing, covered, mislaid>>
    BY DEF Kept!StartMinimize
<1>2. MergeCovers'
  <2>1. Kept!CoverOf(seeds) \subseteq covered \cup Kept!CoverOf(mislaid)
      BY CoverMono DEF CorpusInv, OnceWritten
  <2>2. Kept!CoverOf(mislaid) \subseteq Kept!CoverOf(files \cup mislaid)
      BY CoverMono
  <2>3. Kept!CoverOf(files \cup mislaid)
          \subseteq Kept!CoverOf(seeds \cap files) \cup Kept!CoverOf((files \ seeds) \cup mislaid)
      BY CoverWithin, files \cup mislaid \subseteq (seeds \cap files) \cup ((files \ seeds) \cup mislaid)
  <2>4. Kept!CoverOf(seeds)
          \subseteq Kept!CoverOf(seeds \cap files) \cup Kept!CoverOf((files \ seeds) \cup mislaid)
      BY <2>1, <2>2, <2>3 DEF CorpusInv, Kept!CoverageKept
  <2> QED
      BY <1>1, <2>4 DEF MergeCovers
<1> QED
    BY <1>1, <1>2 DEF CorpusInv, CorpusTypes, OnceWritten, RestCovers, Kept!CoverageKept

\* The merge keeps a set that covers as much as what it was given: what it drops, and what
\* it knows and was written meanwhile, is covered by that and by what it does not know.  If
\* the listing fails, all that goes is mislaid.
LEMMA MergeStep == ASSUME CorpusInv, Kept!Merge PROVE CorpusInv'
<1>1. PICK merged, found :
        /\ merged \subseteq min.remove
        /\ Kept!CoverOf(merged) = Kept!CoverOf(min.remove)
        /\ min' = [min EXCEPT !.at = "unlinking", !.remove = Kept!Stale(found) \ Given]
        /\ mislaid' = IF found = merged THEN mislaid ELSE mislaid \cup min'.remove
    BY DEF Kept!Merge
<1>2. UNCHANGED <<files, seeds, writing, covered>> /\ min.at = "merging" /\ mislaid \subseteq mislaid'
    BY <1>1 DEF Kept!Merge
<1>3. min' = [at |-> "unlinking", known |-> min.known, remove |-> (min.known \ found) \ Given]
    BY <1>1 DEF Kept!Stale, CorpusInv, CorpusTypes
<1>4. RestCovers'
  <2> DEFINE stale == (min.known \ found) \ Given
  <2>1. CASE found # merged
    <3>1. stale \subseteq mislaid'
      <4>1. min.remove' = stale
          BY <1>3
      <4>2. mislaid' = mislaid \cup min.remove'
          BY <1>1, <2>1
      <4> QED
          BY <4>1, <4>2
    <3>2. Kept!CoverOf(stale) \subseteq Kept!CoverOf((files \ stale) \cup mislaid')
        BY <3>1, CoverMono
    <3> HIDE DEF stale
    <3> QED
        BY <1>2, <1>3, <3>2 DEF RestCovers, stale
  <2>2. CASE found = merged
    <3>1. Kept!CoverOf(stale) \subseteq Kept!CoverOf(min.known)
        BY CoverMono
    <3>2. merged \subseteq files \ stale
        BY <1>1, <1>2, <2>2 DEF CorpusInv, MergeCovers
    <3>3. Kept!CoverOf(merged) \subseteq Kept!CoverOf((files \ stale) \cup mislaid')
        BY <3>2, CoverMono
    <3>4. Kept!CoverOf((files \ min.known) \cup mislaid)
            \subseteq Kept!CoverOf((files \ stale) \cup mislaid')
        BY <1>2, CoverMono
    <3>5. Kept!CoverOf(stale) \subseteq Kept!CoverOf((files \ stale) \cup mislaid')
        BY <1>1, <1>2, <3>1, <3>3, <3>4 DEF CorpusInv, MergeCovers
    <3> HIDE DEF stale
    <3> QED
        BY <1>2, <1>3, <3>5 DEF RestCovers, stale
  <2> QED
      BY <2>1, <2>2
<1>5. Kept!CoverOf(mislaid) \subseteq Kept!CoverOf(mislaid')
    BY <1>2, CoverMono
<1>6. Kept!CoverOf(files \cup mislaid) \subseteq Kept!CoverOf(files' \cup mislaid')
    BY <1>2, CoverMono
<1>7. OnceWritten' /\ Kept!CoverageKept'
    BY <1>2, <1>5, <1>6 DEF CorpusInv, OnceWritten, Kept!CoverageKept
<1> QED
    BY <1>3, <1>4, <1>7, <1>2 DEF CorpusInv, CorpusTypes, MergeCovers

LEMMA UnlinkStep == ASSUME CorpusInv, Kept!Unlink PROVE CorpusInv'
<1>1. /\ min.at = "unlinking" /\ files' = files \ min.remove
      /\ min' = [min EXCEPT !.at = "unlinked"]
      /\ UNCHANGED <<seeds, writing, covered, mislaid>>
    BY DEF Kept!Unlink
<1>2. min' = [at |-> "unlinked", known |-> min.known, remove |-> min.remove]
    BY <1>1 DEF CorpusInv, CorpusTypes
<1>3. Kept!CoverageKept'
  <2>1. Kept!CoverOf(files \cup mislaid)
          \subseteq Kept!CoverOf(min.remove) \cup Kept!CoverOf(files' \cup mislaid')
      BY <1>1, CoverWithin, files \cup mislaid \subseteq min.remove \cup (files' \cup mislaid')
  <2>2. Kept!CoverOf(min.remove) \subseteq Kept!CoverOf(files' \cup mislaid')
      BY <1>1 DEF CorpusInv, RestCovers
  <2>3. Kept!CoverOf(files') \subseteq Kept!CoverOf(files)
      BY <1>1, CoverMono
  <2> QED
      BY <1>1, <2>1, <2>2, <2>3 DEF CorpusInv, Kept!CoverageKept
<1> QED
    BY <1>1, <1>2, <1>3 DEF CorpusInv, CorpusTypes, OnceWritten, MergeCovers, RestCovers

LEMMA MinSteps ==
  ASSUME CorpusInv,
         Kept!MatchCorpus \/ Kept!Matched \/ Kept!MergeFails \/ Kept!Minimized \/ Kept!Restart
  PROVE  CorpusInv'
<1>1. /\ CorpusTypes' /\ UNCHANGED <<files, covered, mislaid>>
      /\ min'.at \notin {"merging", "unlinking"}
    BY DEF Kept!MatchCorpus, Kept!Matched, Kept!MergeFails, Kept!Minimized, Kept!Restart,
       Kept!Idle, CorpusInv, CorpusTypes
<1>2. seeds' \cup writing'.found \cup writing'.added
        \subseteq seeds \cup writing.found \cup writing.added \cup files
    BY DEF Kept!MatchCorpus, Kept!Matched, Kept!MergeFails, Kept!Minimized, Kept!Restart
<1> QED
    BY <1>1, <1>2, SetChanged

LEMMA CorpusNext ==
  ASSUME CorpusInv, [Kept!Next]_(Kept!corpusVars)
  PROVE  CorpusInv'
<1>1. CASE UNCHANGED Kept!corpusVars
    BY <1>1 DEF Kept!corpusVars, CorpusInv, CorpusTypes, OnceWritten, MergeCovers, RestCovers,
       Kept!CoverageKept
<1> QED
    BY <1>1, FileSteps, SetSteps, BoxSteps, StartMinimizeStep, MergeStep, UnlinkStep, MinSteps
       DEF Kept!Next

(***************************************************************************)
(* Crashes on their way to triage (crs/app/helpers.py, crs/modules/fuzzing.py).*)
(***************************************************************************)
\* The sizes of sets are those of FiniteSets.
LEMMA CrashSets ==
  \A S : (Crash!IsFiniteSet(S) <=> IsFiniteSet(S)) /\ Crash!Cardinality(S) = Cardinality(S)
    BY DEF Cardinality, Crash!Cardinality, IsFiniteSet, Crash!IsFiniteSet

Outcomes == {"missing", "error", "crash", "clean"}
States == {"queued", "running", "done", "failed"}
Row == [crash : Crashes, state : States, tries : Int]
Looked == {"adding", "stored", "unlinked"}
AddingTo(b) == {j \in adding : BucketOf[job[j].crash] = b}

\* What the variables may hold; a batch is bounded.
CrashesTypes ==
  /\ bucketed \subseteq Crashes /\ refused \subseteq Crashes
  /\ listed \in [Crash!Buckets -> Nat] /\ crashRestarts \in Nat
  /\ Crash!Rows \subseteq CrashJobs /\ job \in [Crash!Rows -> Row]
  /\ phase \in {"idle", "ran"} \cup Looked
  /\ Crash!Batch \subseteq Crash!Rows /\ Crash!Cardinality(Crash!Batch) <= BatchSize
  /\ \A j \in Crash!Batch : batch[j] \in Outcomes
  /\ accepted \subseteq Crash!Batch /\ adding \subseteq accepted

\* The worker has the jobs that run; a job of its batch that runs no more timed out.
BatchRuns ==
  /\ \A j \in Crash!Rows : job[j].state = "running" => j \in Crash!Batch
  /\ \A j \in Crash!Batch :
       \/ job[j].state = "running"
       \/ job[j].state # "done" /\ job[j].crash \in redone

\* How far the crashes of the batch have come.
OnTheWay ==
  /\ phase = "idle" => Crash!Batch = {}
  /\ phase \notin Looked => accepted = {}
  /\ phase # "adding" => adding = {}
  /\ \A j \in Crash!Batch : batch[j] = "clean" => job[j].crash \notin Real
  /\ \A j \in accepted : batch[j] = "crash" /\ (j \in adding \/ job[j].crash \in bucketed)
  /\ phase \in {"stored", "unlinked"} => \A j \in accepted : job[j].crash \in crashPovs
  /\ phase = "unlinked" => \A j \in accepted : job[j].crash \in crashTriaged
  /\ phase \in Looked =>
       \A j \in Crash!Batch : batch[j] = "crash" => j \in accepted \/ job[j].crash \in refused

\* A list is as long as its bucket, or longer, and not much over the limit.
Lists ==
  \A b \in Crash!Buckets :
    /\ Crash!Cardinality(Crash!Bucket(b)) <= listed[b]
    /\ listed[b] + Crash!Cardinality(AddingTo(b)) < MaxPerBucket + BatchSize

\* Until a restart a crash has one job, and a file from it, unless the job ran again.
OneJobEach ==
  crashRestarts = 0 => /\ \A j \in Crash!Rows : job[j].crash \in known
                       /\ \A i, j \in Crash!Rows : job[i].crash = job[j].crash => i = j
FileOfJob ==
  crashRestarts = 0 =>
    \A c \in bucketed :
      \/ c \in redone
      \/ \E j \in Crash!Rows : /\ job[j].crash = c
                               /\ job[j].state = "done" \/ (j \in accepted /\ j \notin adding)

\* An undisturbed bucket is its list, and all of it is triaged or in this batch.
ListIsBucket ==
  \A b \in Crash!Buckets : Crash!Undisturbed(b) =>
    /\ listed[b] = Crash!Cardinality(Crash!Bucket(b))
    /\ \A c \in Crash!Bucket(b) : c \in crashTriaged \/ \E j \in accepted : job[j].crash = c

CrashesInv ==
  /\ CrashesTypes /\ BatchRuns /\ OnTheWay /\ Lists /\ OneJobEach /\ FileOfJob /\ ListIsBucket
  /\ Crash!CrashesReachTriage

LEMMA CrashesSubset ==
  ASSUME NEW S, Crash!IsFiniteSet(S), NEW T \in SUBSET S
  PROVE  /\ Crash!IsFiniteSet(T) /\ Crash!Cardinality(T) \in Nat /\ Crash!Cardinality(S) \in Nat
         /\ Crash!Cardinality(T) <= Crash!Cardinality(S)
<1>1. Crash!IsFiniteSet(T) /\ Crash!Cardinality(T) <= Crash!Cardinality(S)
    BY FS_Subset, CrashSets
<1>2. Crash!Cardinality(T) \in Nat /\ Crash!Cardinality(S) \in Nat
    BY <1>1, FS_CardinalityType, CrashSets
<1> QED
    BY <1>1, <1>2

LEMMA CrashesUnion ==
  ASSUME NEW S, Crash!IsFiniteSet(S), NEW T, Crash!IsFiniteSet(T)
  PROVE  Crash!Cardinality(S \cup T) <= Crash!Cardinality(S) + Crash!Cardinality(T)
<1>1. /\ Crash!IsFiniteSet(S \cap T) /\ Crash!Cardinality(S \cap T) \in Nat
      /\ Crash!Cardinality(S) \in Nat /\ Crash!Cardinality(T) \in Nat /\ Crash!Cardinality(S \cup T) \in Nat
  <2>1. Crash!IsFiniteSet(S \cap T)
      BY FS_Intersection, CrashSets
  <2>2. Crash!IsFiniteSet(S \cup T)
      BY FS_Union, CrashSets
  <2> QED
      BY <2>1, <2>2, FS_CardinalityType, CrashSets
<1>2. Crash!Cardinality(S \cup T) = Crash!Cardinality(S) + Crash!Cardinality(T) - Crash!Cardinality(S \cap T)
    BY FS_Union, CrashSets
<1> QED
    BY <1>1, <1>2

\* Buckets and sets of jobs are finite, and their sizes numbers.
LEMMA CrashesFinite ==
  ASSUME Crash!CrashesAssumption, CrashesTypes
  PROVE  /\ \A b : /\ Crash!IsFiniteSet(Crash!Bucket(b)) /\ Crash!Cardinality(Crash!Bucket(b)) \in Nat
                   /\ Crash!IsFiniteSet(AddingTo(b)) /\ Crash!Cardinality(AddingTo(b)) \in Nat
         /\ Crash!Cardinality(Crash!Batch) \in Nat /\ Crash!IsFiniteSet(Crash!Batch)
<1>1. /\ Crash!IsFiniteSet(Crashes) /\ Crash!IsFiniteSet(CrashJobs)
      /\ Crash!Batch \in SUBSET CrashJobs /\ adding \subseteq CrashJobs /\ bucketed \subseteq Crashes
    BY DEF Crash!CrashesAssumption, CrashesTypes
<1>2. \A b : Crash!Bucket(b) \in SUBSET Crashes /\ AddingTo(b) \in SUBSET CrashJobs
    BY <1>1 DEF Crash!Bucket, AddingTo
<1> QED
    BY <1>1, <1>2, CrashesSubset

LEMMA CrashesInit == ASSUME Crash!CrashesAssumption, Crash!Init PROVE CrashesInv
<1>1. /\ Crash!Batch = {} /\ Crash!Rows = {} /\ \A b : Crash!Bucket(b) = {} /\ AddingTo(b) = {}
      /\ \A b \in Crash!Buckets : listed[b] = 0
    BY DEF Crash!Init, Crash!Batch, Crash!Rows, Crash!Bucket, AddingTo
<1>2. Crash!Cardinality({}) = 0 /\ MaxPerBucket \in Nat \ {0} /\ BatchSize \in Nat \ {0}
    BY FS_EmptySet, CrashSets DEF Crash!CrashesAssumption
<1>3. CrashesTypes
    BY <1>1, <1>2 DEF Crash!Init, CrashesTypes
<1>4. BatchRuns /\ OnTheWay /\ OneJobEach /\ FileOfJob
    BY <1>1 DEF Crash!Init, BatchRuns, OnTheWay, OneJobEach, FileOfJob, Looked
<1>5. Lists
    BY <1>1, <1>2 DEF Lists
<1>6. ListIsBucket
    BY <1>1, <1>2 DEF ListIsBucket
<1>7. Crash!CrashesReachTriage
  <2>1. Crash!BucketsAreBounded
      BY <1>1, <1>2 DEF Crash!BucketsAreBounded
  <2>2. Crash!InOrder /\ Crash!DoneIsTriaged /\ Crash!RefusedForOthers
      BY <1>1 DEF Crash!Init, Crash!InOrder, Crash!DoneIsTriaged, Crash!RefusedForOthers,
         Crash!JobsThatAre
  <2> QED
      BY <2>1, <2>2 DEF Crash!CrashesReachTriage
<1> QED
    BY <1>3, <1>4, <1>5, <1>6, <1>7 DEF CrashesInv

\* What a step leaves of the buckets that does not write to them.
LEMMA BucketsStay ==
  ASSUME Crash!CrashesAssumption, CrashesInv,
         UNCHANGED <<bucketed, listed, refused, crashRestarts>>, redone \subseteq redone',
         crashTriaged \subseteq crashTriaged',
         \A j \in Crash!Rows : j \in Crash!Rows' /\ job'[j].crash = job[j].crash,
         adding' \in {adding, {}},
         accepted' = accepted \/ \A j \in accepted : job[j].crash \in crashTriaged' \cup redone'
  PROVE  Lists' /\ ListIsBucket' /\ Crash!BucketsAreBounded' /\ Crash!RefusedForOthers'
<1>1. \A b : Crash!Bucket(b)' = Crash!Bucket(b) /\ (Crash!Undisturbed(b)' => Crash!Undisturbed(b))
    BY DEF Crash!Bucket, Crash!Undisturbed
<1>2. \A j \in accepted : j \in Crash!Rows
    BY DEF CrashesInv, CrashesTypes
<1>3. Lists'
  <2> SUFFICES ASSUME NEW b \in Crash!Buckets
               PROVE  /\ Crash!Cardinality(Crash!Bucket(b)') <= listed[b]
                      /\ listed[b] + Crash!Cardinality(AddingTo(b)') < MaxPerBucket + BatchSize
      BY DEF Lists, Crash!Buckets, Crash!Bucket
  <2>1. /\ Crash!Cardinality(Crash!Bucket(b)) <= listed[b]
        /\ listed[b] + Crash!Cardinality(AddingTo(b)) < MaxPerBucket + BatchSize
      BY DEF CrashesInv, Lists
  <2>2. CASE adding' = adding
    <3>1. AddingTo(b)' = AddingTo(b)
        BY <1>2, <2>2 DEF AddingTo, CrashesInv, CrashesTypes
    <3> QED
        BY <1>1, <2>1, <3>1
  <2>3. CASE adding' = {}
    <3>1. AddingTo(b)' = {} /\ Crash!Cardinality({}) = 0
        BY <2>3, FS_EmptySet, CrashSets DEF AddingTo
    <3>2. listed[b] \in Nat /\ Crash!Cardinality(AddingTo(b)) \in Nat
        BY CrashesFinite DEF CrashesInv, CrashesTypes
    <3>3. MaxPerBucket \in Nat /\ BatchSize \in Nat
        BY DEF Crash!CrashesAssumption
    <3> QED
        BY <1>1, <2>1, <3>1, <3>2, <3>3
  <2> QED
      BY <2>2, <2>3
<1>4. ListIsBucket'
  <2> SUFFICES ASSUME NEW b \in Crash!Buckets, Crash!Undisturbed(b)'
               PROVE  /\ listed[b] = Crash!Cardinality(Crash!Bucket(b)')
                      /\ \A c \in Crash!Bucket(b)' :
                           c \in crashTriaged' \/ \E j \in accepted' : job'[j].crash = c
      BY DEF ListIsBucket, Crash!Buckets, Crash!Bucket
  <2>1. /\ listed[b] = Crash!Cardinality(Crash!Bucket(b))
        /\ \A c \in Crash!Bucket(b) : c \in crashTriaged \/ \E j \in accepted : job[j].crash = c
      BY <1>1 DEF CrashesInv, ListIsBucket
  <2>2. \A c \in Crash!Bucket(b) : c \notin redone'
      BY DEF Crash!Undisturbed, Crash!Bucket
  <2> QED
      BY <1>1, <1>2, <2>1, <2>2
<1>5. Crash!BucketsAreBounded'
    BY <1>1 DEF CrashesInv, Crash!CrashesReachTriage, Crash!BucketsAreBounded, Crash!Buckets, Crash!Bucket
<1>6. Crash!RefusedForOthers'
  <2> SUFFICES ASSUME NEW c \in refused, Crash!Undisturbed(BucketOf[c])'
               PROVE  /\ Crash!Cardinality(Crash!Bucket(BucketOf[c])') >= MaxPerBucket
                      /\ Crash!Bucket(BucketOf[c])' \subseteq crashTriaged' \cup Crash!CrashesOf(accepted)'
      BY DEF Crash!RefusedForOthers, Crash!Bucket
  <2>1. Crash!Cardinality(Crash!Bucket(BucketOf[c])) >= MaxPerBucket
      BY <1>1 DEF CrashesInv, Crash!CrashesReachTriage, Crash!RefusedForOthers
  <2>2. BucketOf[c] \in Crash!Buckets
      BY DEF CrashesInv, CrashesTypes, Crash!Buckets
  <2>3. \A x \in Crash!Bucket(BucketOf[c])' :
          x \in crashTriaged' \/ \E j \in accepted' : job'[j].crash = x
      BY <1>4, <2>2 DEF ListIsBucket, Crash!Buckets, Crash!Bucket
  <2> QED
      BY <1>1, <2>1, <2>3 DEF Crash!CrashesOf
<1> QED
    BY <1>3, <1>4, <1>5, <1>6

\* What it leaves of the jobs of a crash and of the files that come from them.
LEMMA JobsStay ==
  ASSUME CrashesInv, UNCHANGED <<bucketed, crashRestarts>>, redone \subseteq redone',
         known \subseteq known', Crash!Rows' = Crash!Rows,
         \A j \in Crash!Rows : job'[j].crash = job[j].crash,
         \A j \in Crash!Rows : job[j].state = "done" => job'[j].state = "done",
         \A j \in accepted \ adding :
           \/ j \in accepted' /\ j \notin adding'
           \/ job'[j].state = "done" \/ job[j].crash \in redone'
  PROVE  OneJobEach' /\ FileOfJob'
<1>1. OneJobEach'
    BY DEF CrashesInv, OneJobEach
<1>2. FileOfJob'
  <2> SUFFICES ASSUME crashRestarts = 0, NEW c \in bucketed
               PROVE  \/ c \in redone'
                      \/ \E j \in Crash!Rows' :
                           /\ job'[j].crash = c
                           /\ job'[j].state = "done" \/ (j \in accepted' /\ j \notin adding')
      BY DEF FileOfJob
  <2>1. \/ c \in redone
        \/ \E j \in Crash!Rows : /\ job[j].crash = c
                                 /\ job[j].state = "done" \/ (j \in accepted /\ j \notin adding)
      BY DEF CrashesInv, FileOfJob
  <2> QED
      BY <2>1
<1> QED
    BY <1>1, <1>2

LEMMA NothingOfCrashes ==
  ASSUME Crash!CrashesAssumption, CrashesInv, known \subseteq known',
         UNCHANGED <<bucketed, listed, job, phase, batch, accepted, adding, refused, redone,
                     crashPovs, crashTriaged, crashRestarts>>
  PROVE  CrashesInv'
<1>1. Lists' /\ ListIsBucket' /\ Crash!BucketsAreBounded' /\ Crash!RefusedForOthers'
    BY BucketsStay DEF Crash!Rows
<1>2. OneJobEach' /\ FileOfJob'
    BY JobsStay DEF Crash!Rows
<1>3. CrashesTypes' /\ BatchRuns' /\ OnTheWay'
    BY DEF CrashesInv, CrashesTypes, BatchRuns, OnTheWay, Crash!Rows, Crash!Batch, Crash!Buckets
<1>4. Crash!InOrder' /\ Crash!DoneIsTriaged'
    BY DEF CrashesInv, Crash!CrashesReachTriage, Crash!InOrder, Crash!DoneIsTriaged,
       Crash!JobsThatAre, Crash!Rows
<1> QED
    BY <1>1, <1>2, <1>3, <1>4 DEF CrashesInv, Crash!CrashesReachTriage

LEMMA WriteCrashStep ==
  ASSUME Crash!CrashesAssumption, CrashesInv, NEW c \in Crashes, Crash!WriteCrash(c)
  PROVE  CrashesInv'
    BY NothingOfCrashes DEF Crash!WriteCrash

LEMMA ReportCrashStep ==
  ASSUME Crash!CrashesAssumption, CrashesInv, NEW c \in Crashes, Crash!ReportCrash(c)
  PROVE  CrashesInv'
<1>1. /\ UNCHANGED <<bucketed, listed, phase, batch, accepted, adding, refused, redone,
                     crashPovs, crashTriaged, crashRestarts>>
      /\ known' = known \cup {c}
    BY DEF Crash!ReportCrash
<1>2. CASE job' = job
    BY <1>1, <1>2, NothingOfCrashes
<1>3. CASE c \notin known /\ Crash!Submitted(c)
  <2>1. PICK new \in CrashJobs \ Crash!Rows :
          job' = [j \in Crash!Rows \cup {new} |->
                    IF j = new THEN [crash |-> c, state |-> "queued", tries |-> CrashAttempts]
                    ELSE job[j]]
    <3> DEFINE n == CHOOSE j \in CrashJobs : j \notin Crash!Rows
    <3>1. \E j \in CrashJobs : j \notin Crash!Rows
        BY <1>3 DEF Crash!Submitted, CrashesInv, CrashesTypes
    <3>2. n \in CrashJobs \ Crash!Rows
        BY <3>1
    <3>3. job' = [j \in Crash!Rows \cup {n} |->
                    IF j = n THEN [crash |-> c, state |-> "queued", tries |-> CrashAttempts]
                    ELSE job[j]]
        BY <1>3 DEF Crash!Submitted
    <3> QED
        BY <3>2, <3>3
  <2>2. /\ Crash!Rows' = Crash!Rows \cup {new} /\ \A j \in Crash!Rows : job'[j] = job[j]
        /\ job'[new] = [crash |-> c, state |-> "queued", tries |-> CrashAttempts]
      BY <2>1 DEF Crash!Rows
  <2>3. \A j \in accepted : j \in Crash!Rows
      BY DEF CrashesInv, CrashesTypes
  <2>4. Lists' /\ ListIsBucket' /\ Crash!BucketsAreBounded' /\ Crash!RefusedForOthers'
      BY <1>1, <2>2, BucketsStay
  <2>5. CrashesTypes'
    <3>1. CrashAttempts \in Int
        BY DEF Crash!CrashesAssumption
    <3>2. job' \in [Crash!Rows' -> Row]
        BY <2>1, <2>2, <3>1 DEF CrashesInv, CrashesTypes, Row, States
    <3> QED
        BY <1>1, <2>1, <2>2, <3>2 DEF CrashesInv, CrashesTypes, Crash!Batch, Crash!Buckets
  <2>6. BatchRuns' /\ OnTheWay'
    <3>1. Crash!Batch' = Crash!Batch /\ \A j \in Crash!Batch : job'[j] = job[j] /\ j \in Crash!Rows
        BY <1>1, <2>2 DEF Crash!Batch, CrashesInv, CrashesTypes
    <3>2. BatchRuns'
        BY <1>1, <2>2, <3>1 DEF CrashesInv, BatchRuns
    <3>3. OnTheWay'
        BY <1>1, <2>2, <2>3, <3>1 DEF CrashesInv, OnTheWay
    <3> QED
        BY <3>2, <3>3
  <2>7. OneJobEach' /\ FileOfJob'
    <3>1. crashRestarts = 0 => \A j \in Crash!Rows : job[j].crash # c
        BY <1>3 DEF CrashesInv, OneJobEach
    <3>2. OneJobEach'
        BY <1>1, <2>2, <3>1 DEF CrashesInv, OneJobEach
    <3>3. FileOfJob'
      <4> SUFFICES ASSUME crashRestarts = 0, NEW x \in bucketed, x \notin redone
                   PROVE  \E j \in Crash!Rows' :
                            /\ job'[j].crash = x
                            /\ job'[j].state = "done" \/ (j \in accepted' /\ j \notin adding')
          BY <1>1 DEF FileOfJob
      <4>1. PICK j \in Crash!Rows : /\ job[j].crash = x
                                    /\ job[j].state = "done" \/ (j \in accepted /\ j \notin adding)
          BY DEF CrashesInv, FileOfJob
      <4> QED
          BY <1>1, <2>2, <4>1
    <3> QED
        BY <3>2, <3>3
  <2>8. Crash!InOrder' /\ Crash!DoneIsTriaged'
      BY <1>1, <2>2 DEF CrashesInv, Crash!CrashesReachTriage, Crash!InOrder, Crash!DoneIsTriaged,
         Crash!JobsThatAre
  <2> QED
      BY <2>4, <2>5, <2>6, <2>7, <2>8 DEF CrashesInv, Crash!CrashesReachTriage
<1> QED
    BY <1>2, <1>3 DEF Crash!ReportCrash

LEMMA TakeBatchStep ==
  ASSUME Crash!CrashesAssumption, CrashesInv, Crash!TakeBatch PROVE CrashesInv'
<1>0. PICK some \in SUBSET Crash!JobsThatAre("queued") :
        /\ Crash!Cardinality(some) <= BatchSize
        /\ job' = [j \in Crash!Rows |-> IF j \in some THEN [job[j] EXCEPT !.state = "running"] ELSE job[j]]
        /\ \E err \in SUBSET {j \in some : job[j].crash \in untested} :
             batch' = [j \in some |-> IF job[j].crash \notin untested THEN "missing"
                                      ELSE IF j \in err THEN "error"
                                      ELSE IF job[j].crash \in Real THEN "crash" ELSE "clean"]
    BY DEF Crash!TakeBatch
<1>1. /\ phase = "idle" /\ phase' = "ran"
      /\ UNCHANGED <<bucketed, listed, accepted, adding, refused, redone, known, crashPovs,
                     crashTriaged, crashRestarts>>
    BY DEF Crash!TakeBatch
<1>2. some \subseteq Crash!Rows /\ \A j \in some : job[j].state = "queued"
    BY DEF Crash!JobsThatAre
<1>3. Crash!Batch' = some /\ accepted = {} /\ adding = {} /\ Crash!Batch = {}
    BY <1>0, <1>1 DEF CrashesInv, OnTheWay, Crash!Batch, Looked
<1>4. \A j \in some : /\ batch'[j] \in Outcomes
                      /\ batch'[j] = "clean" => job[j].crash \notin Real
    BY <1>0 DEF Outcomes
<1>5. Crash!Rows' = Crash!Rows /\ job' \in [Crash!Rows -> Row]
    BY <1>0 DEF CrashesInv, CrashesTypes, States, Row, Crash!Rows
<1>6. \A j \in Crash!Rows : /\ job'[j].crash = job[j].crash
                            /\ j \in some => job'[j].state = "running"
                            /\ j \notin some => job'[j] = job[j]
    BY <1>0 DEF CrashesInv, CrashesTypes, Row
<1>7. CrashesTypes'
    BY <1>0, <1>1, <1>2, <1>3, <1>4, <1>5 DEF CrashesInv, CrashesTypes, Crash!Buckets
<1>8. BatchRuns'
    BY <1>2, <1>3, <1>5, <1>6 DEF CrashesInv, BatchRuns
<1>9. OnTheWay'
    BY <1>1, <1>2, <1>3, <1>4, <1>6 DEF OnTheWay, Looked
<1>10. Lists' /\ ListIsBucket' /\ Crash!BucketsAreBounded' /\ Crash!RefusedForOthers'
    BY <1>1, <1>5, <1>6, BucketsStay
<1>11. OneJobEach' /\ FileOfJob'
    BY <1>1, <1>2, <1>3, <1>5, <1>6, JobsStay
<1>12. Crash!InOrder' /\ Crash!DoneIsTriaged'
    BY <1>1, <1>5, <1>6 DEF CrashesInv, Crash!CrashesReachTriage, Crash!InOrder,
       Crash!DoneIsTriaged, Crash!JobsThatAre
<1> QED
    BY <1>7, <1>8, <1>9, <1>10, <1>11, <1>12 DEF CrashesInv, Crash!CrashesReachTriage

LEMMA LookStep ==
  ASSUME Crash!CrashesAssumption, CrashesInv, Crash!Look PROVE CrashesInv'
<1> DEFINE crashing == {j \in Crash!Batch : batch[j] = "crash"}
<1>1. /\ phase = "ran" /\ phase' = "adding"
      /\ UNCHANGED <<bucketed, listed, known, job, batch, redone, crashPovs, crashTriaged,
                     crashRestarts>>
      /\ adding' = accepted'
      /\ accepted' = {j \in crashing : ~Crash!Full(job[j].crash)}
      /\ refused' = refused \cup Crash!CrashesOf(crashing \ accepted')
    BY DEF Crash!Look
<1>2. accepted = {} /\ adding = {}
    BY <1>1 DEF CrashesInv, OnTheWay, Looked
<1>3. Crash!Rows' = Crash!Rows /\ Crash!Batch' = Crash!Batch /\ Crash!Batch \subseteq Crash!Rows
    BY <1>1 DEF Crash!Rows, Crash!Batch, CrashesInv, CrashesTypes
<1>4. /\ \A j \in crashing : j \in accepted' \/ job[j].crash \in refused'
      /\ \A c \in refused' : c \in refused \/ \E j \in crashing : job[j].crash = c /\ Crash!Full(c)
    BY <1>1 DEF Crash!CrashesOf
<1>5. CrashesTypes'
  <2>1. \A j \in Crash!Batch : job[j].crash \in Crashes
      BY <1>3 DEF CrashesInv, CrashesTypes, Row
  <2>2. refused' \subseteq Crashes
      BY <1>4, <2>1 DEF CrashesInv, CrashesTypes
  <2>3. accepted' \subseteq Crash!Batch'
      BY <1>1, <1>3
  <2> QED
      BY <1>1, <1>3, <2>2, <2>3 DEF CrashesInv, CrashesTypes, Looked, Crash!Buckets
<1>6. BatchRuns'
    BY <1>1, <1>3 DEF CrashesInv, BatchRuns
<1>7. OnTheWay'
    BY <1>1, <1>3, <1>4 DEF CrashesInv, OnTheWay, Looked
<1>8. \A b : Crash!Bucket(b)' = Crash!Bucket(b) /\ Crash!Undisturbed(b)' = Crash!Undisturbed(b)
    BY <1>1 DEF Crash!Bucket, Crash!Undisturbed
<1>9. Lists'
  <2> SUFFICES ASSUME NEW b \in Crash!Buckets
               PROVE  listed[b] + Crash!Cardinality(AddingTo(b)') < MaxPerBucket + BatchSize
      BY <1>1, <1>8 DEF CrashesInv, Lists, Crash!Buckets
  <2>1. /\ listed[b] \in Nat /\ MaxPerBucket \in Nat /\ BatchSize \in Nat \ {0}
        /\ Crash!Cardinality(Crash!Batch) \in Nat /\ Crash!IsFiniteSet(Crash!Batch)
        /\ Crash!Cardinality(Crash!Batch) <= BatchSize
      BY CrashesFinite DEF CrashesInv, CrashesTypes, Crash!CrashesAssumption
  <2>2. AddingTo(b)' \subseteq Crash!Batch
      BY <1>1 DEF AddingTo
  <2>3. /\ Crash!Cardinality(AddingTo(b)') \in Nat
        /\ Crash!Cardinality(AddingTo(b)') <= Crash!Cardinality(Crash!Batch)
      BY <2>1, <2>2, CrashesSubset
  <2>4. CASE AddingTo(b)' = {}
    <3>1. listed[b] + Crash!Cardinality(AddingTo(b)) < MaxPerBucket + BatchSize /\ AddingTo(b) = {}
        BY <1>2 DEF CrashesInv, Lists, AddingTo
    <3> QED
        BY <2>4, <3>1
  <2>5. CASE AddingTo(b)' # {}
    <3>1. PICK j \in AddingTo(b)' : ~Crash!Full(job[j].crash) /\ BucketOf[job[j].crash] = b
        BY <1>1, <2>5 DEF AddingTo
    <3>2. ~(listed[b] >= MaxPerBucket)
        BY <3>1 DEF Crash!Full
    <3> QED
        BY <2>1, <2>3, <3>2
  <2> QED
      BY <2>4, <2>5
<1>10. OneJobEach' /\ FileOfJob'
    BY <1>1, <1>2, <1>3, JobsStay
<1>11. ListIsBucket'
    BY <1>1, <1>2, <1>8 DEF CrashesInv, ListIsBucket, Crash!Buckets
<1>12. Crash!BucketsAreBounded'
    BY <1>1, <1>8 DEF CrashesInv, Crash!CrashesReachTriage, Crash!BucketsAreBounded, Crash!Buckets
<1>13. Crash!RefusedForOthers'
  <2> SUFFICES ASSUME NEW c \in refused', Crash!Undisturbed(BucketOf[c])
               PROVE  /\ Crash!Cardinality(Crash!Bucket(BucketOf[c])) >= MaxPerBucket
                      /\ Crash!Bucket(BucketOf[c]) \subseteq crashTriaged' \cup Crash!CrashesOf(accepted)'
      BY <1>8 DEF Crash!RefusedForOthers
  <2>1. c \in Crashes /\ BucketOf[c] \in Crash!Buckets
      BY <1>5 DEF CrashesTypes, Crash!Buckets
  <2>2. /\ listed[BucketOf[c]] = Crash!Cardinality(Crash!Bucket(BucketOf[c]))
        /\ \A x \in Crash!Bucket(BucketOf[c]) : x \in crashTriaged
      BY <1>2, <2>1 DEF CrashesInv, ListIsBucket
  <2>3. CASE c \in refused
      BY <1>1, <2>2, <2>3 DEF CrashesInv, Crash!CrashesReachTriage, Crash!RefusedForOthers
  <2>4. CASE Crash!Full(c)
      BY <1>1, <2>2, <2>4 DEF Crash!Full
  <2> QED
      BY <1>4, <2>3, <2>4
<1>14. Crash!InOrder' /\ Crash!DoneIsTriaged'
    BY <1>1, <1>3 DEF CrashesInv, Crash!CrashesReachTriage, Crash!InOrder,
       Crash!DoneIsTriaged, Crash!JobsThatAre
<1> QED
    BY <1>5, <1>6, <1>7, <1>9, <1>10, <1>11, <1>12, <1>13, <1>14 DEF CrashesInv,
       Crash!CrashesReachTriage

LEMMA AddCrashStep ==
  ASSUME Crash!CrashesAssumption, CrashesInv, NEW j \in CrashJobs, Crash!AddCrash(j)
  PROVE  CrashesInv'
<1>a. PICK c : c = job[j].crash
    OBVIOUS
<1>b. PICK e : e = BucketOf[c]
    OBVIOUS
<1>1. /\ j \in adding /\ adding' = adding \ {j}
      /\ bucketed' = bucketed \cup {c}
      /\ listed' = [listed EXCEPT ![e] = @ + 1]
      /\ UNCHANGED <<known, job, phase, batch, accepted, refused, redone, crashPovs, crashTriaged,
                     crashRestarts>>
    BY <1>a, <1>b DEF Crash!AddCrash
<1>2. /\ Crash!Rows' = Crash!Rows /\ Crash!Batch' = Crash!Batch /\ phase = "adding"
      /\ j \in accepted /\ j \in Crash!Batch /\ j \in Crash!Rows /\ c \in Crashes
    BY <1>1, <1>a DEF Crash!Rows, Crash!Batch, CrashesInv, CrashesTypes, OnTheWay, Row
<1>3. /\ e \in Crash!Buckets
      /\ \A b \in Crash!Buckets : listed'[b] = IF b = e THEN listed[b] + 1 ELSE listed[b]
    BY <1>1, <1>2, <1>b DEF CrashesInv, CrashesTypes, Crash!Buckets
<1>4. CrashesTypes'
  <2>1. listed' \in [Crash!Buckets -> Nat]
      BY <1>1, <1>3 DEF CrashesInv, CrashesTypes
  <2> QED
      BY <1>1, <1>2, <2>1 DEF CrashesInv, CrashesTypes, Crash!Buckets
<1>5. BatchRuns'
    BY <1>1, <1>2 DEF CrashesInv, BatchRuns
<1>6. OnTheWay'
    BY <1>1, <1>2, <1>a DEF CrashesInv, OnTheWay, Looked
<1>7. /\ \A b : b # e => Crash!Bucket(b)' = Crash!Bucket(b) /\ AddingTo(b)' = AddingTo(b)
      /\ Crash!Bucket(e)' = Crash!Bucket(e) \cup {c}
      /\ AddingTo(e)' = AddingTo(e) \ {j} /\ j \in AddingTo(e)
      /\ \A b : Crash!Undisturbed(b)' = Crash!Undisturbed(b)
    BY <1>1, <1>a, <1>b DEF Crash!Bucket, AddingTo, Crash!Undisturbed
<1>8. /\ c \in Crash!Bucket(e) =>
           Crash!Cardinality(Crash!Bucket(e)') = Crash!Cardinality(Crash!Bucket(e))
      /\ c \notin Crash!Bucket(e) =>
           Crash!Cardinality(Crash!Bucket(e)') = Crash!Cardinality(Crash!Bucket(e)) + 1
      /\ Crash!Cardinality(AddingTo(e)') = Crash!Cardinality(AddingTo(e)) - 1
  <2>1. Crash!IsFiniteSet(Crash!Bucket(e)) /\ Crash!IsFiniteSet(AddingTo(e))
      BY CrashesFinite DEF CrashesInv
  <2>2. IsFiniteSet(Crash!Bucket(e)) /\ IsFiniteSet(AddingTo(e))
      BY <2>1, CrashSets
  <2>3. ASSUME c \notin Crash!Bucket(e)
        PROVE  Cardinality(Crash!Bucket(e) \cup {c}) = Cardinality(Crash!Bucket(e)) + 1
      BY <2>2, <2>3, FS_AddElement
  <2>4. c \in Crash!Bucket(e) => Crash!Bucket(e) \cup {c} = Crash!Bucket(e)
      OBVIOUS
  <2>5. Cardinality(AddingTo(e) \ {j}) = Cardinality(AddingTo(e)) - 1
      BY <1>7, <2>2, FS_RemoveElement
  <2> QED
      BY <1>7, <2>3, <2>4, <2>5, CrashSets
<1>9. \A b : Crash!Cardinality(Crash!Bucket(b)) \in Nat /\ Crash!Cardinality(AddingTo(b)) \in Nat
    BY CrashesFinite DEF CrashesInv
<1>10. MaxPerBucket \in Nat /\ BatchSize \in Nat /\ \A b \in Crash!Buckets : listed[b] \in Nat
    BY DEF Crash!CrashesAssumption, CrashesInv, CrashesTypes
<1>e. /\ listed'[e] = listed[e] + 1 /\ listed[e] \in Nat
      /\ Crash!Cardinality(Crash!Bucket(e)) \in Nat /\ Crash!Cardinality(AddingTo(e)) \in Nat
      /\ Crash!Cardinality(Crash!Bucket(e)') \in Nat
      /\ Crash!Cardinality(AddingTo(e)) # 0
      /\ Crash!Cardinality(AddingTo(e)') \in Nat
  <2>1. /\ listed'[e] = listed[e] + 1 /\ listed[e] \in Nat
        /\ Crash!Cardinality(Crash!Bucket(e)) \in Nat /\ Crash!Cardinality(AddingTo(e)) \in Nat
      BY <1>3, <1>9, <1>10
  <2>2. IsFiniteSet(AddingTo(e)) /\ AddingTo(e) # {}
      BY <1>7, CrashesFinite, CrashSets DEF CrashesInv
  <2>3. Cardinality(AddingTo(e)) # 0
      BY <2>2, FS_EmptySet
  <2>4. Crash!Cardinality(AddingTo(e)) # 0
      BY <2>3, CrashSets
  <2> QED
      BY <1>8, <2>1, <2>4
<1>11. Lists'
  <2> SUFFICES ASSUME NEW b \in Crash!Buckets
               PROVE  /\ Crash!Cardinality(Crash!Bucket(b)') <= listed'[b]
                      /\ listed'[b] + Crash!Cardinality(AddingTo(b)') < MaxPerBucket + BatchSize
      BY DEF Lists, Crash!Buckets
  <2>1. /\ Crash!Cardinality(Crash!Bucket(b)) <= listed[b]
        /\ listed[b] + Crash!Cardinality(AddingTo(b)) < MaxPerBucket + BatchSize
      BY DEF CrashesInv, Lists
  <2>2. CASE b = e
    <3>1. /\ Crash!Cardinality(Crash!Bucket(e)) <= listed[e]
          /\ listed[e] + Crash!Cardinality(AddingTo(e)) < MaxPerBucket + BatchSize
        BY <2>1, <2>2
    <3>2. /\ Crash!Cardinality(Crash!Bucket(e)') <= listed[e] + 1
          /\ (listed[e] + 1) + Crash!Cardinality(AddingTo(e)') < MaxPerBucket + BatchSize
        BY <1>8, <1>e, <1>10, <3>1
    <3> QED
        BY <1>e, <2>2, <3>2
  <2>3. CASE b # e
      BY <1>3, <1>7, <2>1, <2>3
  <2> QED
      BY <2>2, <2>3
<1>12. \* undisturbed, the file is a new one
       Crash!Undisturbed(e) => c \notin Crash!Bucket(e)
  <2> SUFFICES ASSUME Crash!Undisturbed(e), c \in bucketed PROVE FALSE
      BY DEF Crash!Bucket
  <2>1. crashRestarts = 0 /\ c \notin redone
      BY <1>b DEF Crash!Undisturbed
  <2>2. PICK i \in Crash!Rows : /\ job[i].crash = c
                                /\ job[i].state = "done" \/ (i \in accepted /\ i \notin adding)
      BY <2>1 DEF CrashesInv, FileOfJob
  <2>3. i = j
      BY <1>2, <1>a, <2>1, <2>2 DEF CrashesInv, OneJobEach
  <2>4. job[j].state = "running"
      BY <1>2, <1>a, <2>1 DEF CrashesInv, BatchRuns
  <2> QED
      BY <1>1, <2>2, <2>3, <2>4
<1>13. OneJobEach'
    BY <1>1, <1>2 DEF CrashesInv, OneJobEach
<1>14. FileOfJob'
  <2> SUFFICES ASSUME crashRestarts = 0, NEW x \in bucketed', x \notin redone
               PROVE  \E i \in Crash!Rows : /\ job[i].crash = x
                                            /\ job[i].state = "done" \/ (i \in accepted /\ i \notin adding')
      BY <1>1, <1>2 DEF FileOfJob
  <2>1. CASE x = c
      BY <1>1, <1>2, <1>a, <2>1
  <2>2. CASE x \in bucketed
      BY <1>1, <2>2 DEF CrashesInv, FileOfJob
  <2> QED
      BY <1>1, <2>1, <2>2
<1>15. ListIsBucket'
  <2> SUFFICES ASSUME NEW b \in Crash!Buckets, Crash!Undisturbed(b)
               PROVE  /\ listed'[b] = Crash!Cardinality(Crash!Bucket(b)')
                      /\ \A x \in Crash!Bucket(b)' : x \in crashTriaged \/ \E i \in accepted : job[i].crash = x
      BY <1>1, <1>7 DEF ListIsBucket, Crash!Buckets
  <2>1. /\ listed[b] = Crash!Cardinality(Crash!Bucket(b))
        /\ \A x \in Crash!Bucket(b) : x \in crashTriaged \/ \E i \in accepted : job[i].crash = x
      BY DEF CrashesInv, ListIsBucket
  <2>2. CASE b # e
      BY <1>3, <1>7, <2>1, <2>2
  <2>3. CASE b = e
    <3>1. listed'[b] = Crash!Cardinality(Crash!Bucket(b)')
      <4>1. listed[e] = Crash!Cardinality(Crash!Bucket(e)) /\ c \notin Crash!Bucket(e)
          BY <1>12, <2>1, <2>3
      <4> QED
          BY <1>8, <1>e, <2>3, <4>1
    <3>2. c \in crashTriaged \/ \E i \in accepted : job[i].crash = c
        BY <1>2, <1>a
    <3>3. \A x \in Crash!Bucket(b)' : x \in Crash!Bucket(b) \/ x = c
        BY <1>7, <2>3
    <3> QED
        BY <2>1, <3>1, <3>2, <3>3
  <2> QED
      BY <2>2, <2>3
<1>16. Crash!BucketsAreBounded'
  <2> SUFFICES ASSUME NEW b \in Crash!Buckets
               PROVE  Crash!Cardinality(Crash!Bucket(b)') < MaxPerBucket + BatchSize
      BY DEF Crash!BucketsAreBounded, Crash!Buckets
  <2>1. /\ Crash!Cardinality(Crash!Bucket(b)') <= listed'[b]
        /\ listed'[b] + Crash!Cardinality(AddingTo(b)') < MaxPerBucket + BatchSize
      BY <1>11 DEF Lists, Crash!Buckets
  <2>2. /\ Crash!Cardinality(Crash!Bucket(b)') \in Nat /\ Crash!Cardinality(AddingTo(b)') \in Nat
        /\ listed'[b] \in Nat
    <3>1. CASE b = e
        BY <1>e, <3>1
    <3>2. CASE b # e
        BY <1>3, <1>7, <1>9, <1>10, <3>2
    <3> QED
        BY <3>1, <3>2
  <2> QED
      BY <1>10, <2>1, <2>2
<1>17. Crash!RefusedForOthers'
  <2> SUFFICES ASSUME NEW x \in refused, Crash!Undisturbed(BucketOf[x])
               PROVE  /\ Crash!Cardinality(Crash!Bucket(BucketOf[x])') >= MaxPerBucket
                      /\ Crash!Bucket(BucketOf[x])' \subseteq crashTriaged' \cup Crash!CrashesOf(accepted)'
      BY <1>1, <1>7 DEF Crash!RefusedForOthers
  <2>1. Crash!Cardinality(Crash!Bucket(BucketOf[x])) >= MaxPerBucket
      BY DEF CrashesInv, Crash!CrashesReachTriage, Crash!RefusedForOthers
  <2>2. Crash!Cardinality(Crash!Bucket(BucketOf[x])') >= MaxPerBucket
    <3>1. CASE BucketOf[x] = e
      <4>1. Crash!Cardinality(Crash!Bucket(e)) >= MaxPerBucket
          BY <2>1, <3>1
      <4>2. Crash!Cardinality(Crash!Bucket(e)') >= MaxPerBucket
          BY <1>8, <1>e, <1>10, <4>1
      <4> QED
          BY <3>1, <4>2
    <3>2. CASE BucketOf[x] # e
        BY <1>7, <2>1, <3>2
    <3> QED
        BY <3>1, <3>2
  <2>3. BucketOf[x] \in Crash!Buckets
      BY DEF CrashesInv, CrashesTypes, Crash!Buckets
  <2>4. \A y \in Crash!Bucket(BucketOf[x])' : y \in crashTriaged' \/ \E i \in accepted' : job'[i].crash = y
      BY <1>7, <1>15, <2>3 DEF ListIsBucket, Crash!Buckets
  <2> QED
      BY <2>2, <2>4 DEF Crash!CrashesOf
<1>18. Crash!InOrder' /\ Crash!DoneIsTriaged'
    BY <1>1, <1>2 DEF CrashesInv, Crash!CrashesReachTriage, Crash!InOrder,
       Crash!DoneIsTriaged, Crash!JobsThatAre
<1> QED
    BY <1>4, <1>5, <1>6, <1>11, <1>13, <1>14, <1>15, <1>16, <1>17, <1>18 DEF CrashesInv,
       Crash!CrashesReachTriage

\* The row of a POV and its job, and the files: the crashes are those that were accepted.
LEMMA RegisterStep ==
  ASSUME Crash!CrashesAssumption, CrashesInv,
         Crash!AddPovs \/ Crash!Unlink \/ \E c \in Crashes : Crash!SubmitTriage(c)
  PROVE  CrashesInv'
<1>1. /\ UNCHANGED <<bucketed, listed, known, job, batch, accepted, adding, refused, redone,
                     crashRestarts>>
      /\ crashPovs \subseteq crashPovs' /\ crashTriaged \subseteq crashTriaged'
      /\ phase \in {"adding", "stored"} /\ phase' \in {"stored", "unlinked"} /\ adding = {}
      /\ phase' = "unlinked" => phase = "stored"
    BY DEF Crash!AddPovs, Crash!SubmitTriage, Crash!Unlink, CrashesInv, OnTheWay
<1>2. /\ \A j \in accepted : job[j].crash \in crashPovs'
      /\ phase' = "unlinked" => \A j \in accepted : job[j].crash \in crashTriaged'
      /\ \A c \in crashPovs' : c \in crashPovs \/ \E j \in accepted : job[j].crash = c
      /\ \A c \in crashTriaged' : c \in crashTriaged \/ \E j \in accepted : job[j].crash = c
    BY DEF Crash!AddPovs, Crash!SubmitTriage, Crash!Unlink, Crash!CrashesOf, CrashesInv, OnTheWay
<1>3. Crash!Rows' = Crash!Rows /\ Crash!Batch' = Crash!Batch
    BY <1>1 DEF Crash!Rows, Crash!Batch
<1>4. CrashesTypes' /\ BatchRuns'
    BY <1>1, <1>3 DEF CrashesInv, CrashesTypes, BatchRuns, Looked, Crash!Buckets
<1>5. OnTheWay'
    BY <1>1, <1>2, <1>3 DEF CrashesInv, OnTheWay, Looked
<1>6. Lists' /\ ListIsBucket' /\ Crash!BucketsAreBounded' /\ Crash!RefusedForOthers'
    BY <1>1, <1>3, BucketsStay
<1>7. OneJobEach' /\ FileOfJob'
    BY <1>1, <1>3, JobsStay
<1>8. Crash!InOrder'
  <2>1. \A j \in accepted : job[j].crash \in bucketed
      BY <1>1 DEF CrashesInv, OnTheWay
  <2> QED
      BY <1>1, <1>2, <2>1 DEF CrashesInv, Crash!CrashesReachTriage, Crash!InOrder
<1>9. Crash!DoneIsTriaged'
    BY <1>1, <1>3 DEF CrashesInv, Crash!CrashesReachTriage, Crash!DoneIsTriaged, Crash!JobsThatAre
<1> QED
    BY <1>4, <1>5, <1>6, <1>7, <1>8, <1>9 DEF CrashesInv, Crash!CrashesReachTriage

\* What is known of a job that is tried again.
LEMMA RetriedJob ==
  ASSUME Crash!CrashesAssumption, CrashesInv, NEW j \in Crash!Rows
  PROVE  /\ Crash!Retried(j) \in Row /\ Crash!Retried(j).crash = job[j].crash
         /\ Crash!Retried(j).state \in {"queued", "failed"}
<1>1. job[j] \in Row
    BY DEF CrashesInv, CrashesTypes
<1>2. PICK c \in Crashes, s \in States, n \in Int :
        job[j] = [crash |-> c, state |-> s, tries |-> n]
    BY <1>1 DEF Row
<1>3. Crash!Retried(j) = IF n = 1 THEN [crash |-> c, state |-> "failed", tries |-> n]
                         ELSE [crash |-> c, state |-> "queued", tries |-> n - 1]
  <2>1. job[j].tries = n
      BY <1>2
  <2>2. [job[j] EXCEPT !.state = "failed"] = [crash |-> c, state |-> "failed", tries |-> n]
      BY <1>2
  <2>3. [crash |-> job[j].crash, state |-> "queued", tries |-> job[j].tries - 1]
          = [crash |-> c, state |-> "queued", tries |-> n - 1]
      BY <1>2
  <2> QED
      BY <2>1, <2>2, <2>3, Zenon DEF Crash!Retried
<1>4. n - 1 \in Int /\ {"failed", "queued"} \subseteq States
    BY DEF States
<1> QED
    BY <1>2, <1>3, <1>4 DEF Row

\* What a step leaves that ends the batch and gives every job that runs another state.
LEMMA BatchEnds ==
  ASSUME Crash!CrashesAssumption, CrashesInv, Crash!EndBatch,
         UNCHANGED <<bucketed, listed, known, refused, crashPovs, crashTriaged, crashRestarts>>,
         redone \subseteq redone',
         Crash!Rows' = Crash!Rows, job' \in [Crash!Rows -> Row],
         \A j \in Crash!Rows : job'[j].crash = job[j].crash /\ job'[j].state # "running",
         \A j \in Crash!Rows : job[j].state # "running" => job'[j] = job[j],
         \A j \in Crash!Batch : job[j].state = "running" /\ job'[j].state = "done" =>
           phase = "unlinked" /\ batch[j] \in {"crash", "clean"},
         \A j \in accepted : \/ job[j].crash \in redone'
                             \/ job[j].crash \in crashTriaged /\ job'[j].state = "done"
  PROVE  CrashesInv'
<1>1. /\ phase' = "idle" /\ Crash!Batch' = {} /\ accepted' = {} /\ adding' = {}
      /\ Crash!Cardinality({}) = 0
    BY FS_EmptySet, CrashSets DEF Crash!Batch, Crash!EndBatch
<1>2. \A j \in accepted : j \in Crash!Rows
    BY DEF CrashesInv, CrashesTypes
<1>3. CrashesTypes'
    BY <1>1 DEF CrashesInv, CrashesTypes, Crash!CrashesAssumption, Crash!Buckets
<1>4. BatchRuns' /\ OnTheWay'
    BY <1>1 DEF BatchRuns, OnTheWay, Looked
<1>5. Lists' /\ ListIsBucket' /\ Crash!BucketsAreBounded' /\ Crash!RefusedForOthers'
    BY <1>1, BucketsStay
<1>6. OneJobEach' /\ FileOfJob'
    BY <1>2, JobsStay
<1>7. Crash!DoneIsTriaged'
  <2> SUFFICES ASSUME NEW j \in Crash!Rows, job'[j].state = "done", job[j].crash \in Real
               PROVE  job[j].crash \in crashTriaged \cup refused
      BY DEF Crash!DoneIsTriaged, Crash!JobsThatAre
  <2>1. CASE job[j].state # "running"
      BY <2>1 DEF CrashesInv, Crash!CrashesReachTriage, Crash!DoneIsTriaged, Crash!JobsThatAre
  <2>2. CASE job[j].state = "running"
    <3>1. j \in Crash!Batch /\ phase = "unlinked" /\ batch[j] \in {"crash", "clean"}
        BY <2>2 DEF CrashesInv, BatchRuns
    <3> QED
        BY <3>1 DEF CrashesInv, OnTheWay, Looked
  <2> QED
      BY <2>1, <2>2
<1>8. Crash!InOrder'
    BY DEF CrashesInv, Crash!CrashesReachTriage, Crash!InOrder
<1> QED
    BY <1>3, <1>4, <1>5, <1>6, <1>7, <1>8 DEF CrashesInv, Crash!CrashesReachTriage

LEMMA AnswerStep ==
  ASSUME Crash!CrashesAssumption, CrashesInv, Crash!Answer PROVE CrashesInv'
<1>1. /\ phase = "unlinked"
      /\ job' = [j \in Crash!Rows |-> IF job[j].state = "running" THEN Crash!EndedAs(j) ELSE job[j]]
      /\ Crash!EndBatch
      /\ UNCHANGED <<bucketed, listed, known, refused, redone, crashPovs, crashTriaged, crashRestarts>>
    BY DEF Crash!Answer
<1>2. \A j \in Crash!Rows :
        /\ Crash!EndedAs(j) \in Row /\ Crash!EndedAs(j).crash = job[j].crash
        /\ Crash!EndedAs(j).state # "running"
        /\ batch[j] \in {"crash", "clean"} <=> Crash!EndedAs(j).state = "done"
  <2> TAKE j \in Crash!Rows
  <2>1. job[j] \in Row
      BY DEF CrashesInv, CrashesTypes
  <2> QED
      BY <2>1, RetriedJob DEF Crash!EndedAs, Row, States
<1>3. /\ Crash!Rows' = Crash!Rows /\ job' \in [Crash!Rows -> Row]
      /\ \A j \in Crash!Rows : job'[j] = IF job[j].state = "running" THEN Crash!EndedAs(j) ELSE job[j]
    BY <1>1, <1>2 DEF CrashesInv, CrashesTypes, Crash!Rows
<1>4. \A j \in accepted : \/ job[j].crash \in redone'
                          \/ job[j].crash \in crashTriaged /\ job'[j].state = "done"
  <2> TAKE j \in accepted
  <2>1. j \in Crash!Batch /\ j \in Crash!Rows /\ batch[j] = "crash" /\ job[j].crash \in crashTriaged
      BY <1>1 DEF CrashesInv, CrashesTypes, OnTheWay
  <2> QED
      BY <1>1, <1>2, <1>3, <2>1 DEF CrashesInv, BatchRuns
<1>5. Crash!Batch \subseteq Crash!Rows
    BY DEF CrashesInv, CrashesTypes
<1> QED
    BY <1>1, <1>2, <1>3, <1>4, <1>5, BatchEnds

LEMMA BatchFailsStep ==
  ASSUME Crash!CrashesAssumption, CrashesInv, Crash!BatchFails PROVE CrashesInv'
<1>1. /\ job' = [j \in Crash!Rows |-> IF job[j].state = "running" THEN Crash!Retried(j) ELSE job[j]]
      /\ Crash!EndBatch /\ redone' = redone \cup Crash!CrashesOf(accepted)
      /\ UNCHANGED <<bucketed, listed, known, refused, crashPovs, crashTriaged, crashRestarts>>
    BY DEF Crash!BatchFails
<1>2. /\ Crash!Rows' = Crash!Rows /\ job' \in [Crash!Rows -> Row]
      /\ \A j \in Crash!Rows : job'[j] = IF job[j].state = "running" THEN Crash!Retried(j) ELSE job[j]
    BY <1>1, RetriedJob DEF CrashesInv, CrashesTypes, Crash!Rows
<1>3. \A j \in accepted : job[j].crash \in redone'
    BY <1>1 DEF Crash!CrashesOf
<1>4. Crash!Batch \subseteq Crash!Rows
    BY DEF CrashesInv, CrashesTypes
<1>5. \A j \in Crash!Rows : /\ job'[j].crash = job[j].crash /\ job'[j].state # "running"
                            /\ job[j].state = "running" => job'[j].state # "done"
    BY <1>2, RetriedJob
<1> QED
    BY <1>1, <1>2, <1>3, <1>4, <1>5, BatchEnds

LEMMA TimesOutStep ==
  ASSUME Crash!CrashesAssumption, CrashesInv, NEW j \in CrashJobs, Crash!TimesOut(j)
  PROVE  CrashesInv'
<1>1. /\ j \in Crash!Rows /\ job[j].state = "running" /\ job' = [job EXCEPT ![j] = Crash!Retried(j)]
      /\ redone' = redone \cup {job[j].crash}
      /\ UNCHANGED <<bucketed, listed, known, phase, batch, accepted, adding, refused, crashPovs,
                     crashTriaged, crashRestarts>>
    BY DEF Crash!TimesOut, Crash!JobsThatAre
<1>2. /\ Crash!Rows' = Crash!Rows /\ Crash!Batch' = Crash!Batch /\ job' \in [Crash!Rows -> Row]
      /\ \A i \in Crash!Rows : job'[i] = IF i = j THEN Crash!Retried(j) ELSE job[i]
    BY <1>1, RetriedJob DEF CrashesInv, CrashesTypes, Crash!Rows, Crash!Batch
<1>3. /\ \A i \in Crash!Rows : job'[i].crash = job[i].crash
      /\ job'[j].state \in {"queued", "failed"}
    BY <1>1, <1>2, RetriedJob
<1>4. CrashesTypes'
    BY <1>1, <1>2 DEF CrashesInv, CrashesTypes, Crash!Buckets
<1>5. BatchRuns'
    BY <1>1, <1>2, <1>3 DEF CrashesInv, CrashesTypes, BatchRuns
<1>6. OnTheWay'
  <2>1. \A i \in Crash!Batch : job'[i].crash = job[i].crash
      BY <1>3 DEF CrashesInv, CrashesTypes
  <2>2. \A i \in accepted : i \in Crash!Batch
      BY DEF CrashesInv, CrashesTypes
  <2> QED
      BY <1>1, <1>2, <2>1, <2>2 DEF CrashesInv, OnTheWay
<1>7. Lists' /\ ListIsBucket' /\ Crash!BucketsAreBounded' /\ Crash!RefusedForOthers'
    BY <1>1, <1>2, <1>3, BucketsStay
<1>8. OneJobEach' /\ FileOfJob'
    BY <1>1, <1>2, <1>3, JobsStay
<1>9. Crash!InOrder' /\ Crash!DoneIsTriaged'
    BY <1>1, <1>2, <1>3 DEF CrashesInv, Crash!CrashesReachTriage, Crash!InOrder,
       Crash!DoneIsTriaged, Crash!JobsThatAre
<1> QED
    BY <1>4, <1>5, <1>6, <1>7, <1>8, <1>9 DEF CrashesInv, Crash!CrashesReachTriage

\* The lists are read from the disk, where files may be that were not in them yet.
LEMMA CrashesRestartStep ==
  ASSUME Crash!CrashesAssumption, CrashesInv, Crash!Restart PROVE CrashesInv'
<1>1. PICK written \in SUBSET adding : bucketed' = bucketed \cup Crash!CrashesOf(written)
    BY DEF Crash!Restart
<1>2. /\ job' = [j \in Crash!Rows |-> IF job[j].state = "running" THEN [job[j] EXCEPT !.state = "queued"]
                                      ELSE job[j]]
      /\ listed' = [b \in Crash!Buckets |-> Crash!Cardinality(Crash!Bucket(b)')]
      /\ phase' = "idle" /\ batch' = <<>> /\ accepted' = {} /\ adding' = {}
      /\ crashRestarts' = crashRestarts + 1
      /\ UNCHANGED <<refused, crashPovs, crashTriaged>>
    BY DEF Crash!Restart, Crash!EndBatch
<1>3. /\ Crash!Rows' = Crash!Rows /\ Crash!Batch' = {} /\ Crash!Cardinality({}) = 0
      /\ job' \in [Crash!Rows -> Row]
      /\ \A j \in Crash!Rows : /\ job'[j].crash = job[j].crash /\ job'[j].state # "running"
                               /\ job'[j].state = "done" => job[j].state = "done"
  <2>1. /\ Crash!Rows' = Crash!Rows /\ Crash!Batch' = {} /\ Crash!Cardinality({}) = 0
      BY <1>2, FS_EmptySet, CrashSets DEF Crash!Rows, Crash!Batch
  <2>2. ASSUME NEW j \in Crash!Rows
        PROVE  /\ job'[j] \in Row /\ job'[j].crash = job[j].crash /\ job'[j].state # "running"
               /\ job'[j].state = "done" => job[j].state = "done"
    <3>1. PICK c \in Crashes, s \in States, n \in Int :
            job[j] = [crash |-> c, state |-> s, tries |-> n]
        BY DEF CrashesInv, CrashesTypes, Row
    <3>2. job'[j] = IF s = "running" THEN [crash |-> c, state |-> "queued", tries |-> n] ELSE job[j]
        BY <1>2, <3>1
    <3>3. "queued" \in States
        BY DEF States
    <3> QED
        BY <3>1, <3>2, <3>3 DEF Row
  <2> QED
      BY <1>2, <2>1, <2>2
<1>4. crashRestarts' \in Nat /\ crashRestarts' # 0
    BY <1>2 DEF CrashesInv, CrashesTypes
<1>5. bucketed' \subseteq Crashes /\ bucketed \subseteq bucketed'
    BY <1>1 DEF CrashesInv, CrashesTypes, Crash!CrashesOf, Row
<1>6. \A b : Crash!IsFiniteSet(Crash!Bucket(b)') /\ Crash!Cardinality(Crash!Bucket(b)') \in Nat
  <2> TAKE b
  <2>1. Crash!Bucket(b)' \in SUBSET Crashes /\ Crash!IsFiniteSet(Crashes)
      BY <1>5 DEF Crash!Bucket, Crash!CrashesAssumption
  <2> QED
      BY <2>1, CrashesSubset
<1>7. \A b \in Crash!Buckets : Crash!Cardinality(Crash!Bucket(b)') < MaxPerBucket + BatchSize
  <2> TAKE b \in Crash!Buckets
  <2> DEFINE more == {j \in written : BucketOf[job[j].crash] = b}
             image == {job[j].crash : j \in more}
             f == [j \in more |-> job[j].crash]
  <2>1. Crash!Bucket(b)' = Crash!Bucket(b) \cup image
      BY <1>1 DEF Crash!Bucket, Crash!CrashesOf
  <2>2. more \in SUBSET AddingTo(b)
      BY DEF AddingTo
  <2>3. /\ Crash!IsFiniteSet(more) /\ Crash!Cardinality(more) \in Nat
        /\ Crash!Cardinality(AddingTo(b)) \in Nat
        /\ Crash!Cardinality(more) <= Crash!Cardinality(AddingTo(b))
      BY <2>2, CrashesFinite, CrashesSubset DEF CrashesInv
  <2>4. f \in Surjection(more, image)
      BY DEF Surjection
  <2> HIDE DEF more, image, f
  <2>5. IsFiniteSet(image) /\ Cardinality(image) <= Cardinality(more)
      BY <2>3, <2>4, FS_Surjection, CrashSets
  <2>6. /\ Crash!IsFiniteSet(image) /\ Crash!Cardinality(image) <= Crash!Cardinality(more)
        /\ Crash!Cardinality(image) \in Nat
      BY <2>5, CrashSets, FS_CardinalityType
  <2>7. /\ Crash!IsFiniteSet(Crash!Bucket(b)) /\ Crash!Cardinality(Crash!Bucket(b)) \in Nat
      BY CrashesFinite DEF CrashesInv
  <2>8. Crash!Cardinality(Crash!Bucket(b)') <= Crash!Cardinality(Crash!Bucket(b)) + Crash!Cardinality(image)
      BY <2>1, <2>6, <2>7, CrashesUnion
  <2>9. /\ Crash!Cardinality(Crash!Bucket(b)) <= listed[b] /\ listed[b] \in Nat
        /\ listed[b] + Crash!Cardinality(AddingTo(b)) < MaxPerBucket + BatchSize
      BY DEF CrashesInv, CrashesTypes, Lists
  <2>10. MaxPerBucket \in Nat /\ BatchSize \in Nat /\ Crash!Cardinality(Crash!Bucket(b)') \in Nat
      BY <1>6 DEF Crash!CrashesAssumption
  <2> QED
      BY <2>3, <2>6, <2>7, <2>8, <2>9, <2>10
<1>8. CrashesTypes'
  <2>1. listed' \in [Crash!Buckets -> Nat]
      BY <1>2, <1>6
  <2> QED
      BY <1>2, <1>3, <1>4, <1>5, <2>1 DEF CrashesInv, CrashesTypes, Crash!CrashesAssumption,
         Crash!Buckets
<1>9. BatchRuns' /\ OnTheWay'
    BY <1>2, <1>3 DEF BatchRuns, OnTheWay, Looked
<1>10. Lists'
  <2> SUFFICES ASSUME NEW b \in Crash!Buckets
               PROVE  /\ Crash!Cardinality(Crash!Bucket(b)') <= listed'[b]
                      /\ listed'[b] + Crash!Cardinality(AddingTo(b)') < MaxPerBucket + BatchSize
      BY DEF Lists, Crash!Buckets
  <2>1. AddingTo(b)' = {} /\ listed'[b] = Crash!Cardinality(Crash!Bucket(b)')
      BY <1>2 DEF AddingTo
  <2> QED
      BY <1>3, <1>6, <1>7, <2>1
<1>11. OneJobEach' /\ FileOfJob' /\ ListIsBucket' /\ Crash!RefusedForOthers'
    BY <1>4 DEF OneJobEach, FileOfJob, ListIsBucket, Crash!RefusedForOthers, Crash!Undisturbed
<1>12. Crash!BucketsAreBounded'
    BY <1>7 DEF Crash!BucketsAreBounded, Crash!Buckets
<1>13. Crash!InOrder' /\ Crash!DoneIsTriaged'
    BY <1>2, <1>3, <1>5 DEF CrashesInv, Crash!CrashesReachTriage, Crash!InOrder,
       Crash!DoneIsTriaged, Crash!JobsThatAre
<1> QED
    BY <1>8, <1>9, <1>10, <1>11, <1>12, <1>13 DEF CrashesInv, Crash!CrashesReachTriage

LEMMA CrashesNext ==
  ASSUME Crash!CrashesAssumption, CrashesInv, [Crash!Next]_(Crash!crashVars)
  PROVE  CrashesInv'
<1>1. CASE UNCHANGED Crash!crashVars
    BY <1>1, NothingOfCrashes DEF Crash!crashVars
<1> QED
    BY <1>1, WriteCrashStep, ReportCrashStep, TakeBatchStep, LookStep, AddCrashStep, RegisterStep,
       AnswerStep, BatchFailsStep, TimesOutStep, CrashesRestartStep DEF Crash!Next

(***************************************************************************)
(* From coverage to branch flips (crs/modules/coverage.py, crs/app/helpers.py).*)
(***************************************************************************)
\* The sizes of sets are those of FiniteSets.
LEMMA FlipSets ==
  \A S : (Flip!IsFiniteSet(S) <=> IsFiniteSet(S)) /\ Flip!Cardinality(S) = Cardinality(S)
    BY DEF Cardinality, Flip!Cardinality, IsFiniteSet, Flip!IsFiniteSet

LEMMA LeastOf ==
  ASSUME NEW S \in SUBSET Nat, S # {} PROVE \E n \in S : \A m \in S : n <= m
<1>1. PICK n \in S : \A m \in S : ~ (<<m, n>> \in OpToRel(<, Nat))
    BY NatLessThanWellFounded, WFMin
<1>2. \A m \in S : ~ (m < n)
    BY <1>1 DEF OpToRel
<1> QED
    BY <1>2

FlipPhases == {"idle", "run", "parsed", "stored", "deduped"}
BatchType(b) ==
  /\ b.phase \in FlipPhases
  /\ b = [phase |-> b.phase, seeds |-> b.seeds, failed |-> b.failed, todo |-> b.todo]
  /\ b.seeds \subseteq FlipSeeds
  /\ b.phase = "parsed" => b.todo \subseteq Funcs
  /\ b.phase = "deduped" => b.todo \subseteq Flip!Pairs

\* What the variables may hold.
FlipsTypes ==
  /\ BatchType(flipBatch)
  /\ table \subseteq Funcs /\ hits \subseteq Funcs /\ branchflips \subseteq Flip!Pairs
  /\ DOMAIN nearest \subseteq Funcs /\ \A f \in DOMAIN nearest : nearest[f] \in Funcs
  /\ asked \in [Flip!Pairs -> Nat]
  /\ budget \in Nat /\ started \in Nat /\ flipFaults \in Nat /\ flipCrashes \in Nat

\* The graph shows the table while a batch is at work, and the bitmap is ahead of both.
GraphOK ==
  /\ flipBatch.phase # "idle" => loaded
  /\ loaded => hits = table
  /\ table \subseteq bitmap
  /\ flipBatch.phase = "parsed" => flipBatch.todo \subseteq bitmap

\* A pair is marked before it is asked for.
PairsOK ==
  /\ \A p \in Flip!Pairs : asked[p] <= 1 /\ (p \notin branchflips => asked[p] = 0)
  /\ flipBatch.phase = "deduped" => \A p \in flipBatch.todo : p \in branchflips /\ asked[p] = 0

BudgetOK == started <= budget /\ started <= MaxFlips + 1

FlipsInv == FlipsTypes /\ GraphOK /\ PairsOK /\ BudgetOK /\ Flip!NothingLeftOut

\* The graph, its frontier and the callers next to it.
LEMMA Nearest ==
  ASSUME Flip!FlipsAssumption, NEW by \in SUBSET Funcs, NEW old, NEW c \in Flip!ClosestTo(by, old)
  PROVE  DOMAIN c \subseteq Funcs /\ \A f \in DOMAIN c : c[f] \in Funcs
    BY DEF Flip!ClosestTo, Flip!Frontier

LEMMA Loading ==
  ASSUME Flip!FlipsAssumption, FlipsInv, Flip!GraphLoaded
  PROVE  /\ loaded' /\ hits' = table /\ hits' \subseteq Funcs
         /\ DOMAIN nearest' \subseteq Funcs /\ \A f \in DOMAIN nearest' : nearest'[f] \in Funcs
<1>1. CASE loaded
    BY <1>1 DEF Flip!GraphLoaded, FlipsInv, FlipsTypes, GraphOK
<1>2. CASE ~loaded
    BY <1>2, Nearest DEF Flip!GraphLoaded, FlipsInv, FlipsTypes
<1> QED
    BY <1>1, <1>2

\* Whatever the order of the reports, what becomes known is told.
LEMMA NewsAreTold ==
  ASSUME Flip!FlipsAssumption, NEW ran \in SUBSET FlipSeeds, NEW order \in Flip!SetToSeqs(ran)
  PROVE  LET news == UNION {FlipCovers[order[n]] : n \in Flip!News(order)}
             all  == Flip!Covered(order, Len(order))
         IN  news \subseteq all /\ all \subseteq Funcs /\ all \subseteq bitmap \cup news
<1> DEFINE news == UNION {FlipCovers[order[n]] : n \in Flip!News(order)}
           all  == Flip!Covered(order, Len(order))
<1>1. Flip!IsFiniteSet(ran)
    BY FS_Subset, FlipSets DEF Flip!FlipsAssumption
<1>2. PICK d \in Nat : d = Flip!Cardinality(ran)
    BY <1>1, FS_CardinalityType, FlipSets
<1>3. order \in [1..d -> ran]
    BY <1>2 DEF Flip!SetToSeqs
<1>4. Len(order) = d /\ DOMAIN order = 1..d
  <2>1. order \in Seq(ran)
      BY <1>3, SeqDef
  <2> QED
      BY <2>1, <1>3, LenProperties
<1>5. all = UNION {FlipCovers[order[i]] : i \in 1..d}
    BY <1>4 DEF Flip!Covered
<1>6. news \subseteq all
    BY <1>4, <1>5 DEF Flip!News
<1>7. all \subseteq Funcs
    BY <1>3, <1>5 DEF Flip!FlipsAssumption
<1>8. ASSUME NEW f \in all, f \notin bitmap PROVE f \in news
  <2>1. PICK S : S = {i \in 1..d : f \in FlipCovers[order[i]]}
      OBVIOUS
  <2>2. S # {} /\ S \in SUBSET Nat
      BY <2>1, <1>5, <1>8
  <2>3. PICK n \in S : \A m \in S : n <= m
      BY <2>2, LeastOf
  <2>4. f \notin Flip!Covered(order, n - 1)
    <3> SUFFICES ASSUME NEW i \in 1..(n - 1), f \in FlipCovers[order[i]] PROVE FALSE
        BY DEF Flip!Covered
    <3>1. i \in S /\ i < n
        BY <2>1
    <3> QED
        BY <3>1, <2>3
  <2>5. n \in Flip!News(order)
      BY <2>1, <2>4, <1>4, <1>8 DEF Flip!News
  <2> QED
      BY <2>1, <2>5
<1> QED
    BY <1>6, <1>7, <1>8

\* A step of one seed or pair leaves the batch, the graph and the tables alone.
LEMMA AddSeedFlips == ASSUME FlipsInv, NEW s \in FlipSeeds, Flip!AddSeed(s) PROVE FlipsInv'
    BY DEF Flip!AddSeed, FlipsInv, FlipsTypes, BatchType, GraphOK, PairsOK, BudgetOK,
       Flip!NothingLeftOut

LEMMA StartBatchFlips ==
  ASSUME Flip!FlipsAssumption, FlipsInv, Flip!StartBatch PROVE FlipsInv'
<1>1. PICK b : /\ b.phase = "run" /\ b.seeds \subseteq FlipSeeds /\ flipBatch' = b
               /\ b = [phase |-> b.phase, seeds |-> b.seeds, failed |-> b.failed, todo |-> b.todo]
  <2>1. PICK found \in SUBSET FlipSeeds : flipBatch' = [Flip!Idle EXCEPT !.phase = "run", !.seeds = found]
      BY DEF Flip!StartBatch
  <2>2. flipBatch' = [phase |-> "run", seeds |-> found, failed |-> {}, todo |-> {}]
      BY <2>1 DEF Flip!Idle
  <2> QED
      BY <2>2
<1>2. flipBatch.phase = "idle" /\ Flip!GraphLoaded
      /\ UNCHANGED <<bitmap, table, branchflips, budget, asked, started, flipFaults, flipCrashes>>
    BY DEF Flip!StartBatch
<1>3. /\ loaded' /\ hits' = table /\ hits' \subseteq Funcs
      /\ DOMAIN nearest' \subseteq Funcs /\ \A f \in DOMAIN nearest' : nearest'[f] \in Funcs
    BY <1>2, Loading
<1>4. BatchType(flipBatch')
    BY <1>1 DEF BatchType, FlipPhases
<1>5. FlipsTypes'
    BY <1>2, <1>3, <1>4 DEF FlipsInv, FlipsTypes, BatchType, Flip!Pairs
<1>6. GraphOK' /\ PairsOK' /\ BudgetOK'
    BY <1>1, <1>2, <1>3 DEF FlipsInv, GraphOK, PairsOK, BudgetOK
<1>7. Flip!NothingLeftOut'
    BY <1>1, <1>2 DEF FlipsInv, Flip!NothingLeftOut
<1> QED
    BY <1>5, <1>6, <1>7 DEF FlipsInv

LEMMA CollectFlips ==
  ASSUME Flip!FlipsAssumption, FlipsInv, Flip!Collect PROVE FlipsInv'
<1>1. flipBatch.phase = "run"
      /\ UNCHANGED <<table, loaded, hits, nearest, branchflips, budget, asked, started, flipCrashes>>
    BY DEF Flip!Collect
<1>2. PICK news, lost, all :
        /\ news \subseteq Funcs /\ all \subseteq Funcs
        /\ bitmap' = bitmap \cup all /\ news \subseteq all /\ all \subseteq bitmap \cup news
        /\ flipBatch' = [flipBatch EXCEPT !.phase = "parsed", !.failed = lost, !.todo = news]
        /\ flipFaults' \in {flipFaults, flipFaults + 1}
  <2>1. PICK present \in SUBSET flipBatch.seeds :
          \E ran \in SUBSET present : \E order \in Flip!SetToSeqs(ran) :
            /\ ran # present => flipFaults < MaxFlipFaults
            /\ flipFaults' = IF ran = present THEN flipFaults ELSE flipFaults + 1
            /\ bitmap' = bitmap \cup Flip!Covered(order, Len(order))
            /\ flipBatch' = [flipBatch EXCEPT !.phase = "parsed", !.failed = present \ ran,
                                      !.todo = UNION {FlipCovers[order[n]] : n \in Flip!News(order)}]
      BY DEF Flip!Collect
  <2>6. PICK ran \in SUBSET present : \E order \in Flip!SetToSeqs(ran) :
            /\ flipFaults' = IF ran = present THEN flipFaults ELSE flipFaults + 1
            /\ bitmap' = bitmap \cup Flip!Covered(order, Len(order))
            /\ flipBatch' = [flipBatch EXCEPT !.phase = "parsed", !.failed = present \ ran,
                                      !.todo = UNION {FlipCovers[order[n]] : n \in Flip!News(order)}]
      BY <2>1
  <2>2. PICK order \in Flip!SetToSeqs(ran) :
            /\ flipFaults' = IF ran = present THEN flipFaults ELSE flipFaults + 1
            /\ bitmap' = bitmap \cup Flip!Covered(order, Len(order))
            /\ flipBatch' = [flipBatch EXCEPT !.phase = "parsed", !.failed = present \ ran,
                                      !.todo = UNION {FlipCovers[order[n]] : n \in Flip!News(order)}]
      BY <2>6
  <2>3. ran \in SUBSET FlipSeeds
      BY DEF FlipsInv, FlipsTypes, BatchType
  <2>4. PICK news, all :
          /\ news = UNION {FlipCovers[order[n]] : n \in Flip!News(order)}
          /\ all = Flip!Covered(order, Len(order))
      OBVIOUS
  <2>5. news \subseteq all /\ all \subseteq Funcs /\ all \subseteq bitmap \cup news
      BY <2>3, <2>4, NewsAreTold
  <2>7. flipBatch' = [flipBatch EXCEPT !.phase = "parsed", !.failed = present \ ran, !.todo = news]
        /\ bitmap' = bitmap \cup all /\ flipFaults' \in {flipFaults, flipFaults + 1}
      BY <2>2, <2>4
  <2>8. news \in SUBSET Funcs /\ all \in SUBSET Funcs
      BY <2>5
  <2> QED
      BY <2>5, <2>7, <2>8
<1>3. PICK b : /\ b.phase = "parsed" /\ b.seeds = flipBatch.seeds /\ b.todo = news /\ flipBatch' = b
               /\ b = [phase |-> b.phase, seeds |-> b.seeds, failed |-> b.failed, todo |-> b.todo]
  <2>1. flipBatch' = [phase |-> "parsed", seeds |-> flipBatch.seeds, failed |-> lost, todo |-> news]
      BY <1>2 DEF FlipsInv, FlipsTypes, BatchType
  <2> QED
      BY <2>1
<1>4. BatchType(flipBatch')
    BY <1>2, <1>3 DEF BatchType, FlipPhases, FlipsInv, FlipsTypes
<1>5. FlipsTypes'
    BY <1>1, <1>2, <1>4 DEF FlipsInv, FlipsTypes, BatchType, Flip!Pairs
<1>6. GraphOK' /\ PairsOK' /\ BudgetOK'
    BY <1>1, <1>2, <1>3 DEF FlipsInv, GraphOK, PairsOK, BudgetOK
<1>7. Flip!NothingLeftOut'
  <2> SUFFICES ASSUME flipFaults' = 0, flipCrashes' = 0
               PROVE  /\ branchflips' = {p \in Flip!Pairs : asked'[p] > 0}
                      /\ bitmap' = table' \cup flipBatch'.todo
      BY <1>3 DEF Flip!NothingLeftOut
  <2>1. flipFaults = 0 /\ flipCrashes = 0
      BY <1>1, <1>2 DEF FlipsInv, FlipsTypes
  <2>2. branchflips = {p \in Flip!Pairs : asked[p] > 0} /\ bitmap = table
      BY <1>1, <2>1 DEF FlipsInv, Flip!NothingLeftOut
  <2> QED
      BY <2>2, <1>1, <1>2, <1>3
<1> QED
    BY <1>5, <1>6, <1>7 DEF FlipsInv

LEMMA StoreFlips ==
  ASSUME Flip!FlipsAssumption, FlipsInv, Flip!Store PROVE FlipsInv'
<1>1. /\ flipBatch.phase = "parsed" /\ table' = table \cup flipBatch.todo /\ hits' = hits \cup flipBatch.todo
      /\ nearest' \in Flip!ClosestTo(hits', nearest)
      /\ flipBatch' = [flipBatch EXCEPT !.phase = "stored", !.todo = {}]
      /\ UNCHANGED <<bitmap, loaded, branchflips, budget, asked, started, flipFaults, flipCrashes>>
    BY DEF Flip!Store, Flip!Stored
<1>2. PICK b : /\ b.phase = "stored" /\ b.seeds = flipBatch.seeds /\ flipBatch' = b
               /\ b = [phase |-> b.phase, seeds |-> b.seeds, failed |-> b.failed, todo |-> b.todo]
  <2>1. flipBatch' = [phase |-> "stored", seeds |-> flipBatch.seeds, failed |-> flipBatch.failed, todo |-> {}]
      BY <1>1 DEF FlipsInv, FlipsTypes, BatchType
  <2> QED
      BY <2>1
<1>3. flipBatch.todo \subseteq Funcs /\ hits' \in SUBSET Funcs
    BY <1>1 DEF FlipsInv, FlipsTypes, BatchType
<1>4. DOMAIN nearest' \subseteq Funcs /\ \A f \in DOMAIN nearest' : nearest'[f] \in Funcs
    BY <1>1, <1>3, Nearest
<1>5. BatchType(flipBatch')
    BY <1>2 DEF BatchType, FlipPhases, FlipsInv, FlipsTypes
<1>6. FlipsTypes'
    BY <1>1, <1>3, <1>4, <1>5 DEF FlipsInv, FlipsTypes, BatchType, Flip!Pairs
<1>7. GraphOK' /\ PairsOK' /\ BudgetOK'
    BY <1>1, <1>2 DEF FlipsInv, GraphOK, PairsOK, BudgetOK
<1>8. Flip!NothingLeftOut'
    BY <1>1, <1>2 DEF FlipsInv, Flip!NothingLeftOut
<1> QED
    BY <1>6, <1>7, <1>8 DEF FlipsInv

LEMMA BatchFailsFlips ==
  ASSUME Flip!FlipsAssumption, FlipsInv, Flip!BatchFails PROVE FlipsInv'
<1>1. /\ flipBatch.phase \in {"run", "parsed"} /\ flipFaults' = flipFaults + 1
      /\ flipBatch' = [flipBatch EXCEPT !.phase = "stored", !.todo = {}, !.failed = flipBatch.seeds]
      /\ UNCHANGED <<bitmap, table, loaded, hits, nearest, branchflips, budget, asked, started,
                     flipCrashes>>
    BY DEF Flip!BatchFails
<1>2. PICK b : /\ b.phase = "stored" /\ b.seeds = flipBatch.seeds /\ flipBatch' = b
               /\ b = [phase |-> b.phase, seeds |-> b.seeds, failed |-> b.failed, todo |-> b.todo]
  <2>1. flipBatch' = [phase |-> "stored", seeds |-> flipBatch.seeds, failed |-> flipBatch.seeds, todo |-> {}]
      BY <1>1 DEF FlipsInv, FlipsTypes, BatchType
  <2> QED
      BY <2>1
<1>3. BatchType(flipBatch')
    BY <1>2 DEF BatchType, FlipPhases, FlipsInv, FlipsTypes
<1>4. FlipsTypes'
    BY <1>1, <1>3 DEF FlipsInv, FlipsTypes, BatchType, Flip!Pairs
<1>5. GraphOK' /\ PairsOK' /\ BudgetOK'
    BY <1>1, <1>2 DEF FlipsInv, GraphOK, PairsOK, BudgetOK
<1>6. Flip!NothingLeftOut'
    BY <1>1 DEF FlipsInv, FlipsTypes, Flip!NothingLeftOut
<1> QED
    BY <1>4, <1>5, <1>6 DEF FlipsInv

LEMMA DedupFlips ==
  ASSUME Flip!FlipsAssumption, FlipsInv, Flip!Dedup PROVE FlipsInv'
<1>1. PICK new : /\ new = {<<f, nearest[f]>> : f \in DOMAIN nearest} \ branchflips
                 /\ branchflips' = branchflips \cup new
                 /\ flipBatch' = [flipBatch EXCEPT !.phase = "deduped", !.todo = new]
    BY DEF Flip!Dedup, Flip!Marked
<1>2. flipBatch.phase = "stored"
      /\ UNCHANGED <<bitmap, table, loaded, hits, nearest, budget, asked, started, flipFaults, flipCrashes>>
    BY DEF Flip!Dedup
<1>3. PICK b : /\ b.phase = "deduped" /\ b.seeds = flipBatch.seeds /\ b.todo = new /\ flipBatch' = b
               /\ b = [phase |-> b.phase, seeds |-> b.seeds, failed |-> b.failed, todo |-> b.todo]
  <2>1. flipBatch' = [phase |-> "deduped", seeds |-> flipBatch.seeds, failed |-> flipBatch.failed, todo |-> new]
      BY <1>1 DEF FlipsInv, FlipsTypes, BatchType
  <2> QED
      BY <2>1
<1>4. new \subseteq Flip!Pairs /\ \A p \in new : p \notin branchflips
    BY <1>1 DEF FlipsInv, FlipsTypes, Flip!Pairs
<1>5. BatchType(flipBatch')
    BY <1>3, <1>4 DEF BatchType, FlipPhases, FlipsInv, FlipsTypes
<1>6. FlipsTypes'
    BY <1>1, <1>2, <1>4, <1>5 DEF FlipsInv, FlipsTypes, BatchType, Flip!Pairs
<1>7. GraphOK' /\ BudgetOK'
    BY <1>2, <1>3 DEF FlipsInv, GraphOK, BudgetOK
<1>8. PairsOK'
    BY <1>1, <1>2, <1>3, <1>4 DEF FlipsInv, PairsOK, Flip!Pairs
<1>9. Flip!NothingLeftOut'
    BY <1>1, <1>2, <1>3 DEF FlipsInv, Flip!NothingLeftOut, Flip!Pairs
<1> QED
    BY <1>6, <1>7, <1>8, <1>9 DEF FlipsInv

LEMMA HandleFrontierFlips ==
  ASSUME Flip!FlipsAssumption, FlipsInv, Flip!HandleFrontier PROVE FlipsInv'
<1>1. PICK p \in flipBatch.todo :
        /\ flipBatch.phase = "deduped"
        /\ flipBatch' = [flipBatch EXCEPT !.todo = flipBatch.todo \ {p}]
        /\ asked' = [asked EXCEPT ![p] = asked[p] + 1]
        /\ UNCHANGED <<bitmap, table, loaded, hits, nearest, branchflips, budget, started, flipFaults,
                       flipCrashes>>
    BY DEF Flip!HandleFrontier
<1>2. p \in Flip!Pairs /\ flipBatch.todo \subseteq Flip!Pairs /\ asked \in [Flip!Pairs -> Nat]
    BY <1>1 DEF FlipsInv, FlipsTypes, BatchType
<1>3. PICK b : /\ b.phase = "deduped" /\ b.seeds = flipBatch.seeds /\ b.todo = flipBatch.todo \ {p}
               /\ b = [phase |-> b.phase, seeds |-> b.seeds, failed |-> b.failed, todo |-> b.todo]
               /\ flipBatch' = b
  <2>1. flipBatch' = [phase |-> "deduped", seeds |-> flipBatch.seeds, failed |-> flipBatch.failed,
                  todo |-> flipBatch.todo \ {p}]
      BY <1>1 DEF FlipsInv, FlipsTypes, BatchType
  <2> QED
      BY <2>1
<1>4. asked[p] = 0 /\ p \in branchflips
    BY <1>1, <1>2 DEF FlipsInv, PairsOK
<1>5. asked' \in [Flip!Pairs -> Nat] /\ asked'[p] = 1 /\ \A q \in Flip!Pairs \ {p} : asked'[q] = asked[q]
    BY <1>1, <1>2, <1>4
<1>6. BatchType(flipBatch')
    BY <1>2, <1>3 DEF BatchType, FlipPhases, FlipsInv, FlipsTypes
<1>7. FlipsTypes'
    BY <1>1, <1>5, <1>6 DEF FlipsInv, FlipsTypes, Flip!Pairs
<1>8. GraphOK' /\ BudgetOK'
    BY <1>1, <1>3 DEF FlipsInv, GraphOK, BudgetOK
<1>9. PairsOK'
  <2>1. \A q \in Flip!Pairs : asked'[q] <= 1 /\ (q \notin branchflips' => asked'[q] = 0)
      BY <1>1, <1>4, <1>5 DEF FlipsInv, PairsOK
  <2>2. \A q \in flipBatch'.todo : q \in branchflips' /\ asked'[q] = 0
      BY <1>1, <1>2, <1>3, <1>5 DEF FlipsInv, PairsOK
  <2> QED
      BY <2>1, <2>2 DEF PairsOK
<1>10. Flip!NothingLeftOut'
  <2> SUFFICES ASSUME flipFaults' = 0, flipCrashes' = 0
               PROVE  /\ branchflips' = {q \in Flip!Pairs : asked'[q] > 0} \cup flipBatch'.todo
                      /\ bitmap' = table'
      BY <1>3 DEF Flip!NothingLeftOut
  <2>1. branchflips = {q \in Flip!Pairs : asked[q] > 0} \cup flipBatch.todo /\ bitmap = table
      BY <1>1 DEF FlipsInv, Flip!NothingLeftOut
  <2>2. {q \in Flip!Pairs : asked'[q] > 0} = {q \in Flip!Pairs : asked[q] > 0} \cup {p}
      BY <1>2, <1>4, <1>5
  <2>3. flipBatch.todo = flipBatch'.todo \cup {p}
      BY <1>3
  <2> QED
      BY <2>1, <2>2, <2>3, <1>1
<1> QED
    BY <1>7, <1>8, <1>9, <1>10 DEF FlipsInv

LEMMA AnswerFlips ==
  ASSUME FlipsInv, Flip!Answer PROVE FlipsInv'
<1>1. /\ flipBatch.phase = "deduped" /\ flipBatch.todo = {} /\ flipBatch' = Flip!Idle
      /\ UNCHANGED <<bitmap, table, loaded, hits, nearest, branchflips, budget, asked, started,
                     flipFaults, flipCrashes>>
    BY DEF Flip!Answer
<1>2. BatchType(flipBatch')
    BY <1>1 DEF BatchType, FlipPhases, Flip!Idle
<1>3. FlipsTypes'
    BY <1>1, <1>2 DEF FlipsInv, FlipsTypes, Flip!Pairs
<1>4. GraphOK' /\ PairsOK' /\ BudgetOK'
    BY <1>1 DEF FlipsInv, GraphOK, PairsOK, BudgetOK, Flip!Idle
<1>5. Flip!NothingLeftOut'
    BY <1>1 DEF FlipsInv, Flip!NothingLeftOut, Flip!Idle
<1> QED
    BY <1>3, <1>4, <1>5 DEF FlipsInv

LEMMA PreFlipFlips ==
  ASSUME Flip!FlipsAssumption, FlipsInv, NEW p \in Flip!Pairs, Flip!PreFlip(p) PROVE FlipsInv'
<1>1. /\ UNCHANGED <<flipBatch, bitmap, table, branchflips, budget, asked, started, flipFaults, flipCrashes>>
      /\ UNCHANGED <<loaded, hits, nearest>> \/ Flip!GraphLoaded
    BY DEF Flip!PreFlip
<1>2. CASE UNCHANGED <<loaded, hits, nearest>>
    BY <1>1, <1>2 DEF FlipsInv, FlipsTypes, GraphOK, PairsOK, BudgetOK, Flip!NothingLeftOut
<1>3. CASE Flip!GraphLoaded
  <2>1. /\ loaded' /\ hits' = table /\ hits' \subseteq Funcs
        /\ DOMAIN nearest' \subseteq Funcs /\ \A f \in DOMAIN nearest' : nearest'[f] \in Funcs
      BY <1>3, Loading
  <2>2. FlipsTypes'
      BY <1>1, <2>1 DEF FlipsInv, FlipsTypes
  <2>3. GraphOK' /\ PairsOK' /\ BudgetOK' /\ Flip!NothingLeftOut'
      BY <1>1, <2>1 DEF FlipsInv, GraphOK, PairsOK, BudgetOK, Flip!NothingLeftOut
  <2> QED
      BY <2>2, <2>3 DEF FlipsInv
<1> QED
    BY <1>1, <1>2, <1>3

\* Many jobs look at the budget before one of them has counted: what is begun was counted.
LEMMA DrawFlips ==
  ASSUME Flip!FlipsAssumption, FlipsInv, NEW p \in Flip!Pairs, Flip!DrawFlip(p) PROVE FlipsInv'
<1>1. /\ budget' = budget + 1
      /\ \/ budget <= MaxFlips /\ started' = started + 1
         \/ started' = started
      /\ UNCHANGED <<flipBatch, bitmap, table, loaded, hits, nearest, branchflips, asked, flipFaults,
                     flipCrashes>>
    BY DEF Flip!DrawFlip, Flip!Allowed
<1>2. BudgetOK' /\ budget' \in Nat /\ started' \in Nat
    BY <1>1 DEF FlipsInv, FlipsTypes, BudgetOK, Flip!FlipsAssumption
<1>3. FlipsTypes'
    BY <1>1, <1>2 DEF FlipsInv, FlipsTypes
<1> QED
    BY <1>1, <1>2, <1>3 DEF FlipsInv, GraphOK, PairsOK, Flip!NothingLeftOut

LEMMA CrashFlips ==
  ASSUME FlipsInv, Flip!Crash PROVE FlipsInv'
<1>1. /\ flipCrashes' = flipCrashes + 1 /\ flipBatch' = Flip!Idle /\ loaded' = FALSE /\ hits' = {}
      /\ nearest' = << >>
      /\ UNCHANGED <<bitmap, table, branchflips, budget, asked, started, flipFaults>>
    BY DEF Flip!Crash
<1>2. BatchType(flipBatch')
    BY <1>1 DEF BatchType, FlipPhases, Flip!Idle
<1>3. FlipsTypes'
    BY <1>1, <1>2 DEF FlipsInv, FlipsTypes, Flip!Pairs
<1>4. GraphOK' /\ PairsOK' /\ BudgetOK'
    BY <1>1 DEF FlipsInv, GraphOK, PairsOK, BudgetOK, Flip!Idle
<1>5. Flip!NothingLeftOut'
    BY <1>1 DEF FlipsInv, FlipsTypes, Flip!NothingLeftOut
<1> QED
    BY <1>3, <1>4, <1>5 DEF FlipsInv

LEMMA FlipsSteps ==
  ASSUME Flip!FlipsAssumption, FlipsInv, [Flip!Next]_(Flip!flipVars) PROVE FlipsInv'
<1>1. CASE UNCHANGED Flip!flipVars
    BY <1>1 DEF Flip!flipVars, FlipsInv, FlipsTypes, GraphOK, PairsOK, BudgetOK,
       Flip!NothingLeftOut
<1>2. CASE \E p \in Flip!Pairs : Flip!CheckBudget(p) \/ Flip!FlipBranch(p)
    BY <1>2 DEF Flip!CheckBudget, Flip!FlipBranch, FlipsInv, FlipsTypes, GraphOK, PairsOK,
       BudgetOK,
                Flip!NothingLeftOut
<1> QED
    BY <1>1, <1>2, AddSeedFlips, StartBatchFlips, CollectFlips, StoreFlips, BatchFailsFlips,
       DedupFlips, HandleFrontierFlips, AnswerFlips, PreFlipFlips, DrawFlips, CrashFlips DEF Flip!Next

LEMMA FlipsBegin == ASSUME Flip!FlipsAssumption, Flip!Init PROVE FlipsInv
<1>1. FlipsTypes
    BY DEF Flip!Init, FlipsTypes, BatchType, FlipPhases, Flip!Idle, Flip!Pairs
<1>2. GraphOK /\ PairsOK /\ BudgetOK /\ Flip!NothingLeftOut
    BY DEF Flip!Init, GraphOK, PairsOK, BudgetOK, Flip!NothingLeftOut, Flip!Idle,
       Flip!FlipsAssumption
<1> QED
    BY <1>1, <1>2 DEF FlipsInv

LEMMA FlipsAgree == FlipsInv => Flip!FlipsAccounted
    BY DEF FlipsInv, PairsOK, BudgetOK, GraphOK, Flip!FlipsAccounted, Flip!TriedOnce,
       Flip!GraphIsTable

(***************************************************************************)
(* The parts together: one of them moves, the others have no variables.    *)
(***************************************************************************)
LEMMA PartsMove ==
  ASSUME [Next]_vars
  PROVE  /\ UNCHANGED subject
         /\ subject = "coders" => [OnDemand!Next]_(OnDemand!codersVars)
         /\ subject = "background" => [Workers!Next]_(Workers!bgVars)
         /\ subject = "server" => [Server!Next]_(Server!loopVars)
         /\ subject = "containers" => [Docker!Next]_(Docker!containerVars)
         /\ subject = "corpus" => [Kept!Next]_(Kept!corpusVars)
         /\ subject = "crashes" => [Crash!Next]_(Crash!crashVars)
         /\ subject = "flips" => [Flip!Next]_(Flip!flipVars)
<1>1. CASE Next
    BY <1>1 DEF Next
<1>2. CASE UNCHANGED vars
  <2>1. UNCHANGED <<subject, codersVars, serverVars, backgroundVars, containersVars, corpusVars,
                    crashesVars, flipsVars>>
      BY <1>2 DEF vars
  <2>2. UNCHANGED OnDemand!codersVars
      BY <2>1 DEF codersVars, OnDemand!codersVars, OnDemand!jobVars
  <2>3. UNCHANGED Workers!bgVars
      BY <2>1 DEF backgroundVars, Workers!bgVars
  <2>4. UNCHANGED Docker!containerVars
      BY <2>1 DEF containersVars, Docker!containerVars
  <2>5. UNCHANGED Kept!corpusVars
      BY <2>1 DEF corpusVars, Kept!corpusVars
  <2>6. UNCHANGED Crash!crashVars
      BY <2>1 DEF crashesVars, Crash!crashVars
  <2>7. UNCHANGED Server!loopVars
      BY <2>1 DEF serverVars, Server!loopVars, Server!server
  <2>8. UNCHANGED Flip!flipVars
      BY <2>1 DEF flipsVars, Flip!flipVars
  <2> QED
      BY <2>1, <2>2, <2>3, <2>4, <2>5, <2>6, <2>7, <2>8
<1> QED
    BY <1>1, <1>2

\* get_decoders and get_encoder: no coder is made on demand while there is one, nor two
\* decoders at once, and a flip that ends has what it wanted unless its last attempt failed,
\* for any number of jobs that ask, fail and are tried again.
THEOREM CodersAreMadeOnce == Spec => []OnDemandOnce
<1> DEFINE I == subject = "coders" => CodersInv /\ ServedInv
<1>1. Init => I
    BY CodersInit, ServedInit, Assumptions DEF Init
<1>2. I /\ [Next]_vars => I'
    BY CodersNext, ServedNext, PartsMove, Assumptions
<1>3. I => OnDemandOnce
    BY CodersInvImplies, Assumptions DEF OnDemandOnce
<1> QED
    BY <1>1, <1>2, <1>3, PTL DEF Spec

\* Whoever waits for the workers of a task has the event that their next launch will set, over
\* failing launches, jobs that end and restarts, while no wait times out and the Task stays
\* cached (launch_bgworkers, wait_for_bgworker).
THEOREM NextLaunchFindsWaiters == Spec => []WaitersAreFound
<1> DEFINE I == subject = "background" => WorkersInv
<1>1. Init => I
    BY WorkersInit, Assumptions DEF Init
<1>2. I /\ [Next]_vars => I'
    BY WorkersNext, PartsMove, Assumptions
<1>3. I => WaitersAreFound
    BY DEF WorkersInv, InTime, HasEvent, WaitersAreFound, Workers!WaitersAreFound,
           Workers!Reachable
<1> QED
    BY <1>1, <1>2, <1>3, PTL DEF Spec

\* Every row behind a cursor has its job or is in the batch, a launched task has its builds,
\* workers and analyses, and of a task whose cancellation was polled nothing runs, for any tasks,
\* messages and SARIFs, over crashes anywhere (task_server, CRS.loop, launch_task).
THEOREM NoRowIsLost == Spec => []PollsKeepUp
<1> DEFINE I == subject = "server" => LoopInv
<1>1. Init => I
    BY LoopBegins, Assumptions DEF Init
<1>2. I /\ [Next]_vars => I'
    BY LoopSteps, PartsMove, Assumptions
<1>3. I => PollsKeepUp
    BY LoopPolls DEF PollsKeepUp
<1> QED
    BY <1>1, <1>2, <1>3, PTL DEF Spec

\* Slots and containers: for any machines and any number of clients that are cancelled or time
\* out anywhere, a host has no more work than cores, nobody waits for a host that fits, and a
\* slot, a container or a process belongs to a client that gives it back (DockerManager, run()).
THEOREM SlotsAndContainersAccounted == Spec => []ContainersAccounted
<1> DEFINE I == subject = "containers" => ClientsInv
<1>1. Init => I
    BY ClientsInit, Assumptions DEF Init
<1>2. I /\ [Next]_vars => I'
    BY ClientsNext, PartsMove, Assumptions
<1>3. I => ContainersAccounted
    BY DEF ClientsInv, ContainersAccounted
<1> QED
    BY <1>1, <1>2, <1>3, PTL DEF Spec

\* The files of a harness cover for ever what they once covered, for any seeds and coverage,
\* whatever is found, added or gathered while a merge runs, and if it ends halfway; but for what
\* only seeds cover that were removed after a listing that failed, or that are known although
\* their copy failed (minimize, gather_local_seeds).
THEOREM CoverageIsKept == Spec => []CoverageKept
<1> DEFINE I == subject = "corpus" => CorpusInv
<1>1. Init => I
    BY CorpusInit DEF Init
<1>2. I /\ [Next]_vars => I'
    BY CorpusNext, PartsMove
<1>3. I => CoverageKept
    BY DEF CorpusInv, CoverageKept
<1> QED
    BY <1>1, <1>2, <1>3, PTL DEF Spec

\* For any crashes, buckets and batches, over runs and batches that fail, jobs that time out and
\* restarts between the bucket, the row and the job: a crash whose job is done is triaged or was
\* refused by its bucket, which was full of others that are triaged unless a job of it ran again;
\* a bucket holds no more than a batch too many (BulkCrashWorker, add_crash, register_crashes).
THEOREM BucketsReachTriage == Spec => []CrashesReachTriage
<1> DEFINE I == subject = "crashes" => CrashesInv
<1>1. Init => I
    BY CrashesInit, Assumptions DEF Init
<1>2. I /\ [Next]_vars => I'
    BY CrashesNext, PartsMove, Assumptions
<1>3. I => CrashesReachTriage
    BY DEF CrashesInv, CrashesReachTriage
<1> QED
    BY <1>1, <1>2, <1>3, PTL DEF Spec

\* For any seeds, coverage and call graph: no pair of a frontier function is handed on twice and
\* the flips stay in the budget, over faults and restarts; the graph shows the table; and unless
\* something failed every pair is handed on (BulkCoverageWorker, CoverageDB, flip_branch).
THEOREM FlipsAreAccounted == Spec => []FlipsAccounted
<1> DEFINE I == subject = "flips" => FlipsInv
<1>1. Init => I
    BY FlipsBegin, Assumptions DEF Init
<1>2. I /\ [Next]_vars => I'
    BY FlipsSteps, PartsMove, Assumptions
<1>3. I => FlipsAccounted
    BY FlipsAgree DEF FlipsAccounted
<1> QED
    BY <1>1, <1>2, <1>3, PTL DEF Spec

(***************************************************************************)
(* The reachability graph (crs/modules/graph.py).  While a hit is spread,  *)
(* what a node does not know yet is queued; and closest is no farther than *)
(* over any caller.  So once nothing is queued, whatever the order, what a *)
(* node knows is what the paths in the call graph say.                     *)
(***************************************************************************)
GraphHarnesses == {i.harness : i \in GraphInputs}
GraphNearest == [harness : GraphHarnesses, input : GraphInputs, entry : GraphNodes, distance :
Nat]
Queued == [cur : GraphNodes, entry : GraphNodes, distance : Nat \ {0}]

GraphMarked(n, h) == h \in direct[n] \/ h \in reachable[n]
Known(n) == closest[n] # None
Within(n, d) == Known(n) /\ closest[n].distance <= d

\* What the variables may hold.
ReachTypes ==
  /\ calls \subseteq GraphNodes \X GraphNodes
  /\ direct \in [GraphNodes -> SUBSET GraphHarnesses]
     /\ reachable \in [GraphNodes -> SUBSET GraphHarnesses]
  /\ frontier \subseteq GraphNodes /\ closest \in [GraphNodes -> GraphNearest \cup {None}]
  /\ inputs \subseteq GraphInputs
  /\ \A row \in loading : row.input \in inputs /\ row.node \in row.input.covers
  /\ queued \subseteq Queued

\* What is queued comes from a function that the input runs through.
QueueFits ==
  \A q \in queued :
    /\ source \in inputs /\ q.entry \in source.covers /\ source.harness \in direct[q.entry]
    /\ Leads(GraphNodes, calls, q.entry, q.cur, q.distance)

\* Who is reachable can be reached, and who can be reached in one more step is or is queued.
ReachFits ==
  /\ \A n \in GraphNodes : \A h \in reachable[n] :
       \E a \in Graph!HitBy(h), k \in Nat : Leads(GraphNodes, calls, a, n, k)
  /\ \A m, n \in GraphNodes : <<m, n>> \in calls => \A h \in GraphHarnesses :
       GraphMarked(m, h) => GraphMarked(n, h)
       \/ (source.harness = h /\ \E q \in queued : q.cur = n)

FrontierFits ==
  /\ frontier \cap Graph!AllHit = {}
  /\ \A n \in frontier : \E m \in Graph!AllHit : <<m, n>> \in calls
  /\ \A m, n \in GraphNodes : <<m, n>> \in calls
     => (m \in Graph!AllHit /\ n \notin Graph!AllHit =>
       n \in frontier \/ \E q \in queued : q.cur = n /\ q.distance = 1)

\* closest is where a path begins, and no farther than over a neighbour that is not queued.
ClosestFits ==
  /\ \A n \in GraphNodes : Known(n) =>
       /\ closest[n].input \in inputs /\ closest[n].entry \in closest[n].input.covers
       /\ closest[n].entry \in Graph!AllHit
       /\ Leads(GraphNodes, calls, closest[n].entry, n, closest[n].distance)
  /\ \A n \in Graph!AllHit : Known(n) /\ closest[n].distance = 0
  /\ \A m, n \in GraphNodes : <<m, n>> \in calls => (Known(m) =>
       \/ Within(n, closest[m].distance + 1)
       \/ \E q \in queued : q.cur = n /\ q.distance <= closest[m].distance + 1)

ReachInv == ReachTypes /\ QueueFits /\ ReachFits /\ FrontierFits /\ ClosestFits

\* The sizes of sets are those of FiniteSets.
LEMMA GraphSets ==
  \A S : (Graph!IsFiniteSet(S) <=> IsFiniteSet(S)) /\ Graph!Cardinality(S) = Cardinality(S)
    BY DEF Cardinality, Graph!Cardinality, IsFiniteSet, Graph!IsFiniteSet

LEMMA ReachStarts == ASSUME Graph!ReachAssumption, Graph!Init PROVE ReachInv
<1>1. ReachTypes
    BY DEF Graph!Init, Graph!ReachAssumption, ReachTypes, Graph!Blank
<1>2. Graph!AllHit = {}
    BY DEF Graph!Init, Graph!Blank, Graph!AllHit
<1>3. QueueFits /\ ReachFits
    BY DEF Graph!Init, Graph!Blank, QueueFits, ReachFits, GraphMarked
<1>4. FrontierFits /\ ClosestFits
    BY <1>2 DEF Graph!Init, Graph!Blank, FrontierFits, ClosestFits, Known
<1> QED
    BY <1>1, <1>3, <1>4 DEF ReachInv

\* Once nothing is queued the graph is exact.
LEMMA ReachedBy ==
  ASSUME NEW from \in SUBSET GraphNodes, NEW k \in Graph!Steps, NEW n \in GraphNodes
  PROVE  n \in Graph!Reached(from)[k] <=> \E a \in from : Leads(GraphNodes, calls, a, n, k)
<1>1. n \in Graph!Reached(from)[k] <=> \E path \in [0..k -> GraphNodes] :
        path[0] \in from /\ path[k] = n /\ \A j \in 1..k : <<path[j - 1], path[j]>> \in calls
    BY DEF Graph!Reached
<1> QED
    BY <1>1 DEF Leads, IsPath

LEMMA ReachIsExact == ASSUME Graph!ReachAssumption, ReachInv PROVE Graph!GraphIsExact
<1>1. SUFFICES ASSUME queued = {}, loading = {}, NEW n \in GraphNodes
      PROVE  /\ \A i \in inputs : i.harness \notin direct[n] =>
                  (i.harness \in reachable[n]
                     <=> \E k \in Graph!Steps : n \in Graph!Reached(Graph!HitBy(i.harness))[k])
             /\ n \in frontier <=> n \notin Graph!AllHit /\ n \in Graph!Reached(Graph!AllHit)[1]
             /\ IF closest[n] = None THEN \A k \in Graph!Steps :
                n \notin Graph!Reached(Graph!AllHit)[k]
                ELSE /\ closest[n].entry \in closest[n].input.covers
                        /\ closest[n].input \in inputs
                     /\ n \in Graph!Reached({closest[n].entry})[closest[n].distance]
                     /\ \A k \in 0..closest[n].distance - 1 :
                        n \notin Graph!Reached(Graph!AllHit)[k]
    BY DEF Graph!GraphIsExact
<1>2. IsFiniteSet(GraphNodes) /\ Graph!Steps = 0..Cardinality(GraphNodes)
      /\ Cardinality(GraphNodes) \in Nat
    BY FS_CardinalityType, GraphSets DEF Graph!ReachAssumption, Graph!Steps
<1>3. Graph!AllHit \in SUBSET GraphNodes /\ \A h : Graph!HitBy(h) \in SUBSET GraphNodes
    BY DEF Graph!AllHit, Graph!HitBy
<1>4. ASSUME NEW i \in inputs, i.harness \notin direct[n]
      PROVE  i.harness \in reachable[n] <=> \E k \in Graph!Steps : n
             \in Graph!Reached(Graph!HitBy(i.harness))[k]
  <2>1. PICK h \in GraphHarnesses : h = i.harness
      BY DEF ReachInv, ReachTypes, GraphHarnesses
  <2>2. ASSUME h \in reachable[n] PROVE \E k \in Graph!Steps : n
               \in Graph!Reached(Graph!HitBy(h))[k]
    <3>1. PICK a \in Graph!HitBy(h), k \in Nat : Leads(GraphNodes, calls, a, n, k)
        BY <2>2 DEF ReachInv, ReachFits
    <3>2. PICK j \in Graph!Steps : Leads(GraphNodes, calls, a, n, j)
        BY <1>2, <3>1, ShortPaths
    <3> QED
        BY <1>3, <3>2, ReachedBy
  <2>3. ASSUME NEW k \in Graph!Steps, n \in Graph!Reached(Graph!HitBy(h))[k] PROVE h
               \in reachable[n]
    <3> DEFINE S == {x \in GraphNodes : GraphMarked(x, h)} \X Nat
    <3>1. PICK a \in Graph!HitBy(h) : Leads(GraphNodes, calls, a, n, k)
        BY <1>3, <2>3, ReachedBy
    <3>2. <<a, 0>> \in S
        BY DEF Graph!HitBy, GraphMarked
    <3>3. \A x, y \in GraphNodes, j \in Nat : <<x, j>> \in S /\ <<x, y>> \in calls
          => <<y, j + 1>> \in S
        BY <1>1 DEF ReachInv, ReachFits
    <3>4. k \in Nat
        BY <1>2
    <3> HIDE DEF S
    <3>5. <<n, k>> \in S
        BY <3>1, <3>2, <3>3, <3>4, AlongAPath
    <3> QED
        BY <1>4, <2>1, <3>5 DEF S, GraphMarked
  <2> QED
      BY <2>1, <2>2, <2>3
<1>5. n \in frontier <=> n \notin Graph!AllHit /\ n \in Graph!Reached(Graph!AllHit)[1]
  <2>1. 1 \in Graph!Steps
    <3>1. Cardinality(GraphNodes) # 0
        BY <1>2, FS_EmptySet
    <3> QED
        BY <1>2, <3>1
  <2>2. n \in Graph!Reached(Graph!AllHit)[1] <=> \E a \in Graph!AllHit :
        Leads(GraphNodes, calls, a, n, 1)
      BY <1>3, <2>1, ReachedBy
  <2>3. \A a \in Graph!AllHit : Leads(GraphNodes, calls, a, n, 1) <=> <<a, n>> \in calls
      BY <1>3, OneStep, OneEdge
  <2> QED
      BY <1>1, <1>3, <2>2, <2>3 DEF ReachInv, FrontierFits
<1>6. ASSUME NEW a \in Graph!AllHit, NEW k \in Nat, Leads(GraphNodes, calls, a, n, k)
      PROVE Within(n, k)
  <2> DEFINE S == {z \in GraphNodes \X Nat : Within(z[1], z[2])}
  <2>1. <<a, 0>> \in S
    <3>1. Within(a, 0) /\ a \in GraphNodes
        BY <1>3 DEF ReachInv, ClosestFits, Within
    <3> QED
        BY <3>1
  <2>2. ASSUME NEW x \in GraphNodes, NEW y \in GraphNodes, NEW j \in Nat, <<x, j>> \in S,
               <<x, y>> \in calls
        PROVE  <<y, j + 1>> \in S
    <3>1. Known(x) /\ closest[x].distance <= j
        BY <2>2 DEF Within
    <3>2. Within(y, closest[x].distance + 1)
        BY <1>1, <2>2, <3>1 DEF ReachInv, ClosestFits
    <3>3. closest[x].distance \in Nat /\ closest[y].distance \in Nat
        BY <3>1, <3>2 DEF ReachInv, ReachTypes, Known, Within, GraphNearest
    <3>4. Within(y, j + 1)
        BY <3>1, <3>2, <3>3 DEF Within
    <3> QED
        BY <3>4
  <2> HIDE DEF S
  <2>3. <<n, k>> \in S
      BY <1>6, <2>1, <2>2, AlongAPath
  <2> QED
      BY <2>3 DEF S
<1>7. ASSUME NEW k \in Graph!Steps, n \in Graph!Reached(Graph!AllHit)[k] PROVE Within(n, k)
  <2>1. PICK a \in Graph!AllHit : Leads(GraphNodes, calls, a, n, k)
      BY <1>3, <1>7, ReachedBy
  <2>2. k \in Nat
      BY <1>2
  <2> QED
      BY <1>6, <2>1, <2>2
<1>8. CASE closest[n] = None
    BY <1>4, <1>5, <1>7, <1>8 DEF Within, Known
<1>9. CASE closest[n] # None
  <2>1. PICK e \in Graph!AllHit, d \in Nat :
          e = closest[n].entry /\ d = closest[n].distance /\ Leads(GraphNodes, calls, e, n, d)
      BY <1>9 DEF ReachInv, ReachTypes, ClosestFits, Known, GraphNearest
  <2>2. closest[n].entry \in closest[n].input.covers /\ closest[n].input \in inputs
      BY <1>9 DEF ReachInv, ClosestFits, Known
  <2>3. PICK j \in 0..Cardinality(GraphNodes) : Leads(GraphNodes, calls, e, n, j)
      BY <1>2, <2>1, ShortPaths
  <2>4. d <= j
      BY <1>2, <1>6, <2>1, <2>3 DEF Within
  <2>5. d \in Graph!Steps
      BY <1>2, <2>1, <2>4
  <2>6. n \in Graph!Reached({e})[d]
      BY <1>3, <2>1, <2>5, ReachedBy
  <2>7. ASSUME NEW k \in 0..(d - 1), n \in Graph!Reached(Graph!AllHit)[k] PROVE FALSE
    <3>1. k \in Graph!Steps /\ k \in Nat /\ ~ (d <= k)
        BY <1>2, <2>1, <2>5
    <3> QED
        BY <1>7, <2>1, <2>7, <3>1 DEF Within
  <2> QED
      BY <1>4, <1>5, <1>9, <2>1, <2>2, <2>6, <2>7
<1> QED
    BY <1>8, <1>9

\* A hit: its functions are at distance 0, their callees are queued.
LEMMA HitKeeps ==
  ASSUME Graph!ReachAssumption, ReachInv, NEW input \in inputs', NEW run \in SUBSET input.covers,
         inputs \subseteq inputs', inputs' \subseteq GraphInputs, Graph!Hit(input, run),
         \A row \in loading' : row.input \in inputs' /\ row.node \in row.input.covers
  PROVE  ReachInv'
<1>1. PICK hit \in SUBSET GraphNodes : hit = {n \in run : Graph!Resolved(n)}
    BY DEF Graph!ReachAssumption
<1>2. PICK h \in GraphHarnesses : h = input.harness
    BY DEF GraphHarnesses
<1>3. input \in GraphInputs /\ hit \subseteq input.covers
    BY <1>1
<1>4. /\ queued = {} /\ source' = input /\ calls' = calls /\ reachable' = reachable
      /\ direct' = [n \in GraphNodes |-> IF n \in hit THEN direct[n] \cup {h} ELSE direct[n]]
      /\ closest' = [n \in GraphNodes |-> IF n \in hit
         /\ (closest[n] = None \/ closest[n].distance > 0)
                                     THEN Graph!Closest(input, n, 0) ELSE closest[n]]
      /\ frontier' = frontier \ hit
      /\ queued' = UNION {{[cur |-> m, entry |-> n, distance |-> 1] : m \in Graph!Callees(n)} : n
         \in hit}
    BY <1>1, <1>2 DEF Graph!Hit, Graph!LeftFrontier
<1>5. calls \subseteq GraphNodes \X GraphNodes /\ direct \in [GraphNodes -> SUBSET GraphHarnesses]
    BY DEF ReachInv, ReachTypes
<1>6. direct' \in [GraphNodes -> SUBSET GraphHarnesses] /\ \A n \in GraphNodes :
        /\ direct[n] \subseteq direct'[n] /\ (n \in hit => h \in direct'[n])
        /\ n \notin hit => direct'[n] = direct[n]
        /\ direct'[n] \subseteq direct[n] \cup {h}
    BY <1>4, <1>5
<1>7. Graph!AllHit' = Graph!AllHit \cup hit
    BY <1>6 DEF Graph!AllHit
<1>8. \A x : Graph!HitBy(x) \subseteq Graph!HitBy(x)'
    BY <1>6 DEF Graph!HitBy
<1>9. ASSUME NEW q \in queued'
      PROVE  \E m \in hit, n \in GraphNodes :
               <<m, n>> \in calls /\ q = [cur |-> n, entry |-> m, distance |-> 1]
    BY <1>4 DEF Graph!Callees
<1>10. ASSUME NEW m \in hit, NEW n \in GraphNodes, <<m, n>> \in calls
       PROVE  [cur |-> n, entry |-> m, distance |-> 1] \in queued'
  <2>1. n \in Graph!Callees(m)
      BY <1>10 DEF Graph!Callees
  <2> QED
      BY <1>4, <2>1
<1>11. queued' \subseteq Queued
  <2>1. ASSUME NEW q \in queued' PROVE q \in Queued
    <3>1. PICK m \in hit, n \in GraphNodes : q = [cur |-> n, entry |-> m, distance |-> 1]
        BY <1>9
    <3> QED
        BY <3>1 DEF Queued
  <2> QED
      BY <2>1
<1>12. closest \in [GraphNodes -> GraphNearest \cup {None}]
    BY DEF ReachInv, ReachTypes
<1>13. ASSUME NEW n \in hit
       PROVE  /\ Graph!Closest(input, n, 0) \in GraphNearest /\ Graph!Closest(input, n, 0) # None
              /\ Graph!Closest(input, n, 0).entry = n /\ Graph!Closest(input, n, 0).input = input
              /\ Graph!Closest(input, n, 0).distance = 0
  <2>1. Graph!Closest(input, n, 0) \in GraphNearest
      BY <1>2, <1>3 DEF Graph!Closest, GraphNearest, GraphHarnesses
  <2>2. None \notin GraphNearest
      BY DEF Graph!ReachAssumption, GraphNearest, GraphHarnesses
  <2> QED
      BY <2>1, <2>2 DEF Graph!Closest
<1>14. closest' \in [GraphNodes -> GraphNearest \cup {None}]
    BY <1>4, <1>12, <1>13
<1>15. ASSUME NEW n \in GraphNodes
       PROVE  \/ closest'[n] = closest[n]
              \/ n \in hit /\ closest'[n] = Graph!Closest(input, n, 0)
    BY <1>4
<1>16. ASSUME NEW n \in hit PROVE Known(n)' /\ closest'[n].distance = 0
  <2>1. CASE closest[n] = None \/ closest[n].distance > 0
      BY <1>4, <1>13, <2>1 DEF Known
  <2>2. CASE ~ (closest[n] = None \/ closest[n].distance > 0)
    <3>1. closest[n].distance \in Nat
        BY <1>12, <2>2 DEF GraphNearest
    <3> QED
        BY <1>4, <2>2, <3>1 DEF Known
  <2> QED
      BY <2>1, <2>2
<1>17. ReachTypes'
    BY <1>4, <1>6, <1>11, <1>14 DEF ReachInv, ReachTypes
<1>18. QueueFits'
  <2>1. SUFFICES ASSUME NEW q \in queued'
                 PROVE  /\ source' \in inputs' /\ q.entry \in source'.covers
                        /\ source'.harness \in direct'[q.entry]
                        /\ Leads(GraphNodes, calls', q.entry, q.cur, q.distance)
      BY DEF QueueFits
  <2>2. PICK m \in hit, n \in GraphNodes :
          <<m, n>> \in calls /\ q = [cur |-> n, entry |-> m, distance |-> 1]
      BY <1>9
  <2>3. q.cur = n /\ q.entry = m /\ q.distance = 1 /\ m \in GraphNodes
      BY <2>2
  <2>4. Leads(GraphNodes, calls, m, n, 1)
      BY <2>2, <2>3, OneEdge
  <2> QED
      BY <1>2, <1>3, <1>4, <1>6, <2>3, <2>4
<1>19. ReachFits'
  <2>1. ASSUME NEW n \in GraphNodes, NEW x \in reachable'[n]
        PROVE  \E a \in Graph!HitBy(x)', k \in Nat : Leads(GraphNodes, calls', a, n, k)
    <3>1. PICK a \in Graph!HitBy(x), k \in Nat : Leads(GraphNodes, calls, a, n, k)
        BY <1>4, <2>1 DEF ReachInv, ReachFits
    <3> QED
        BY <1>4, <1>8, <3>1
  <2>2. ASSUME NEW m \in GraphNodes, NEW n \in GraphNodes, <<m, n>> \in calls', NEW x
               \in GraphHarnesses,
               GraphMarked(m, x)'
        PROVE  GraphMarked(n, x)' \/ (source'.harness = x /\ \E q \in queued' : q.cur = n)
    <3>1. CASE m \in hit /\ x = h
      <4>1. [cur |-> n, entry |-> m, distance |-> 1] \in queued'
          BY <1>4, <1>10, <2>2, <3>1
      <4>2. [cur |-> n, entry |-> m, distance |-> 1].cur = n
          OBVIOUS
      <4> QED
          BY <1>2, <1>4, <3>1, <4>1, <4>2
    <3>2. CASE ~ (m \in hit /\ x = h)
      <4>1. GraphMarked(m, x)
          BY <1>4, <1>6, <2>2, <3>2 DEF GraphMarked
      <4>2. GraphMarked(n, x)
          BY <1>4, <2>2, <4>1 DEF ReachInv, ReachFits
      <4> QED
          BY <1>4, <1>6, <4>2 DEF GraphMarked
    <3> QED
        BY <3>1, <3>2
  <2> QED
      BY <2>1, <2>2 DEF ReachFits
<1>20. FrontierFits'
  <2>1. frontier' \cap Graph!AllHit' = {}
      BY <1>4, <1>7 DEF ReachInv, FrontierFits
  <2>2. \A n \in frontier' : \E m \in Graph!AllHit' : <<m, n>> \in calls'
      BY <1>4, <1>7 DEF ReachInv, FrontierFits
  <2>3. ASSUME NEW m \in GraphNodes, NEW n \in GraphNodes, <<m, n>> \in calls', m
               \in Graph!AllHit',
               n \notin Graph!AllHit'
        PROVE  n \in frontier' \/ \E q \in queued' : q.cur = n /\ q.distance = 1
    <3>1. CASE m \in hit
      <4>1. PICK q \in queued' : q = [cur |-> n, entry |-> m, distance |-> 1]
          BY <1>4, <1>10, <2>3, <3>1
      <4> QED
          BY <4>1
    <3>2. CASE m \notin hit
      <4>1. m \in Graph!AllHit /\ n \notin Graph!AllHit /\ n \notin hit
          BY <1>7, <2>3, <3>2
      <4>2. n \in frontier
          BY <1>4, <2>3, <4>1 DEF ReachInv, FrontierFits
      <4> QED
          BY <1>4, <4>1, <4>2
    <3> QED
        BY <3>1, <3>2
  <2> QED
      BY <2>1, <2>2, <2>3 DEF FrontierFits
<1>21. ClosestFits'
  <2>1. ASSUME NEW n \in GraphNodes, Known(n)'
        PROVE  /\ closest'[n].input \in inputs' /\ closest'[n].entry \in closest'[n].input.covers
               /\ closest'[n].entry \in Graph!AllHit'
               /\ Leads(GraphNodes, calls', closest'[n].entry, n, closest'[n].distance)
    <3>1. CASE closest'[n] = closest[n]
        BY <1>4, <1>7, <2>1, <3>1 DEF ReachInv, ClosestFits, Known
    <3>2. CASE n \in hit /\ closest'[n] = Graph!Closest(input, n, 0)
      <4>1. Leads(GraphNodes, calls, n, n, 0)
          BY NoSteps
      <4> QED
          BY <1>3, <1>4, <1>7, <1>13, <3>2, <4>1
    <3> QED
        BY <1>15, <3>1, <3>2
  <2>2. ASSUME NEW n \in Graph!AllHit' PROVE Known(n)' /\ closest'[n].distance = 0
    <3>1. CASE n \in hit
        BY <1>16, <3>1
    <3>2. CASE n \notin hit
      <4>1. n \in Graph!AllHit /\ n \in GraphNodes
          BY <1>7, <3>2 DEF Graph!AllHit
      <4> QED
          BY <1>15, <3>2, <4>1 DEF ReachInv, ClosestFits, Known
    <3> QED
        BY <3>1, <3>2
  <2>3. ASSUME NEW m \in GraphNodes, NEW n \in GraphNodes, <<m, n>> \in calls', Known(m)'
        PROVE  \/ Within(n, closest[m].distance + 1)'
               \/ \E q \in queued' : q.cur = n /\ q.distance <= closest'[m].distance + 1
    <3>1. CASE m \in hit
      <4>1. PICK q \in queued' : q = [cur |-> n, entry |-> m, distance |-> 1]
          BY <1>4, <1>10, <2>3, <3>1
      <4>2. q.cur = n /\ q.distance <= closest'[m].distance + 1
          BY <1>16, <3>1, <4>1
      <4> QED
          BY <4>2
    <3>2. CASE m \notin hit
      <4>1. closest'[m] = closest[m] /\ Known(m)
          BY <1>15, <2>3, <3>2 DEF Known
      <4>2. Within(n, closest[m].distance + 1)
          BY <1>4, <2>3, <4>1 DEF ReachInv, ClosestFits
      <4>3. closest[m].distance \in Nat
          BY <1>12, <4>1 DEF Known, GraphNearest
      <4>4. Known(n)' /\ closest'[n].distance <= closest'[m].distance + 1
        <5>1. CASE n \in hit
          <6>1. 0 <= closest[m].distance + 1
              BY <4>3
          <6> QED
              BY <1>16, <4>1, <5>1, <6>1
        <5>2. CASE n \notin hit
          <6>1. closest'[n] = closest[n]
              BY <1>15, <5>2
          <6> QED
              BY <4>1, <4>2, <6>1 DEF Within, Known
        <5> QED
            BY <5>1, <5>2
      <4> QED
          BY <4>4 DEF Within
    <3> QED
        BY <3>1, <3>2
  <2> QED
      BY <2>1, <2>2, <2>3 DEF ClosestFits
<1> QED
    BY <1>17, <1>18, <1>19, <1>20, <1>21 DEF ReachInv

LEMMA AddNewHitsKeeps ==
  ASSUME Graph!ReachAssumption, ReachInv, NEW i \in GraphInputs,
       Graph!AddNewHits(i) PROVE ReachInv'
<1>1. Graph!Hit(i, i.covers) /\ inputs' = inputs \cup {i} /\ loading' = loading /\ loading = {}
    BY DEF Graph!AddNewHits
<1>2. i \in inputs' /\ inputs \subseteq inputs' /\ inputs' \subseteq GraphInputs
    BY <1>1 DEF ReachInv, ReachTypes
<1> QED
    BY <1>1, <1>2, HitKeeps

LEMMA AddNewHitKeeps ==
  ASSUME Graph!ReachAssumption, ReachInv, NEW row \in loading,
       Graph!AddNewHit(row) PROVE ReachInv'
<1>1. Graph!Hit(row.input, {row.node}) /\ inputs' = inputs /\ loading' \subseteq loading
    BY DEF Graph!AddNewHit
<1>2. /\ row.input \in inputs' /\ {row.node} \in SUBSET row.input.covers
         /\ inputs' \subseteq GraphInputs
      /\ \A r \in loading' : r.input \in inputs' /\ r.node \in r.input.covers
    BY <1>1 DEF ReachInv, ReachTypes
<1> QED
    BY <1>1, <1>2, HitKeeps

\* A turn of the loop.
LEMMA SpreadKeeps ==
  ASSUME Graph!ReachAssumption, ReachInv, NEW q \in queued, Graph!Spread(q) PROVE ReachInv'
<1>1. PICK n \in GraphNodes, e \in GraphNodes, d \in Nat \ {0} : n = q.cur /\ e = q.entry
           /\ d = q.distance
    BY DEF ReachInv, ReachTypes, Queued
<1>2. PICK h \in GraphHarnesses : h = source.harness
    BY DEF ReachInv, ReachTypes, QueueFits, GraphHarnesses
<1>3. /\ source \in inputs /\ e \in source.covers /\ h \in direct[e]
      /\ Leads(GraphNodes, calls, e, n, d)
    BY <1>1, <1>2 DEF ReachInv, QueueFits
<1>4. /\ calls' = calls /\ direct' = direct /\ inputs' = inputs /\ loading' = loading
      /\ source' = source
    BY DEF Graph!Spread
<1>5. Graph!AllHit' = Graph!AllHit /\ \A x : Graph!HitBy(x)' = Graph!HitBy(x)
    BY <1>4 DEF Graph!AllHit, Graph!HitBy
<1>6. /\ calls \subseteq GraphNodes \X GraphNodes
         /\ direct \in [GraphNodes -> SUBSET GraphHarnesses]
      /\ reachable \in [GraphNodes -> SUBSET GraphHarnesses]
         /\ closest \in [GraphNodes -> GraphNearest \cup {None}]
      /\ frontier \subseteq GraphNodes /\ queued \subseteq Queued /\ inputs \subseteq GraphInputs
    BY DEF ReachInv, ReachTypes
<1>7. CASE h \in direct[n]
  <2>1. /\ queued' = queued \ {q} /\ reachable' = reachable /\ frontier' = frontier
        /\ closest' = closest
      BY <1>1, <1>2, <1>7 DEF Graph!Spread
  <2>2. ReachTypes'
      BY <1>4, <2>1 DEF ReachInv, ReachTypes
  <2>3. QueueFits'
      BY <1>4, <2>1 DEF ReachInv, QueueFits
  <2>4. n \in Graph!AllHit /\ Within(n, 0)
      BY <1>6, <1>7 DEF Graph!AllHit, ReachInv, ClosestFits, Within
  <2>5. ReachFits'
    <3>1. \A x \in GraphNodes : \A y \in reachable'[x] :
            \E a \in Graph!HitBy(y)', k \in Nat : Leads(GraphNodes, calls', a, x, k)
        BY <1>4, <1>5, <2>1 DEF ReachInv, ReachFits
    <3>2. ASSUME NEW x \in GraphNodes, NEW y \in GraphNodes, <<x, y>> \in calls', NEW z
                 \in GraphHarnesses,
                 GraphMarked(x, z)'
          PROVE  GraphMarked(y, z)' \/ (source'.harness = z /\ \E r \in queued' : r.cur = y)
      <4>1. GraphMarked(y, z) \/ (source.harness = z /\ \E r \in queued : r.cur = y)
          BY <1>4, <2>1, <3>2 DEF ReachInv, ReachFits, GraphMarked
      <4>2. GraphMarked(n, h)
          BY <1>7 DEF GraphMarked
      <4>3. \A w : GraphMarked(y, w)' <=> GraphMarked(y, w)
          BY <1>4, <2>1 DEF GraphMarked
      <4>4. CASE GraphMarked(y, z)
          BY <4>3, <4>4
      <4>5. ASSUME z = h, NEW r \in queued, r.cur = y
            PROVE  GraphMarked(y, z)' \/ (source'.harness = z /\ \E t \in queued' : t.cur = y)
        <5>1. CASE r = q
            BY <1>1, <4>2, <4>3, <4>5, <5>1
        <5>2. CASE r # q
            BY <1>2, <1>4, <2>1, <4>5, <5>2
        <5> QED
            BY <5>1, <5>2
      <4> QED
          BY <1>2, <4>1, <4>4, <4>5
    <3> QED
        BY <3>1, <3>2 DEF ReachFits
  <2>6. FrontierFits'
    <3>1. frontier' \cap Graph!AllHit' = {}
          /\ \A x \in frontier' : \E m \in Graph!AllHit' : <<m, x>> \in calls'
        BY <1>4, <1>5, <2>1 DEF ReachInv, FrontierFits
    <3>2. ASSUME NEW x \in GraphNodes, NEW y \in GraphNodes, <<x, y>> \in calls', x
                 \in Graph!AllHit',
                 y \notin Graph!AllHit'
          PROVE  y \in frontier' \/ \E r \in queued' : r.cur = y /\ r.distance = 1
        BY <1>1, <1>4, <1>5, <2>1, <2>4, <3>2 DEF ReachInv, FrontierFits
    <3> QED
        BY <3>1, <3>2 DEF FrontierFits
  <2>7. ClosestFits'
    <3>1. \A x \in GraphNodes : Known(x)' => Known(x)
        BY <2>1 DEF Known
    <3>2. ASSUME NEW x \in GraphNodes, NEW y \in GraphNodes, <<x, y>> \in calls', Known(x)'
          PROVE  \/ Within(y, closest[x].distance + 1)'
                 \/ \E r \in queued' : r.cur = y /\ r.distance <= closest'[x].distance + 1
      <4>1. PICK c \in Nat : c = closest[x].distance /\ Known(x)
          BY <1>6, <2>1, <3>2 DEF Known, GraphNearest
      <4>2. Within(y, c + 1) \/ \E r \in queued : r.cur = y /\ r.distance <= c + 1
          BY <1>4, <3>2, <4>1 DEF ReachInv, ClosestFits
      <4>3. \A k : Within(y, k)' <=> Within(y, k)
          BY <2>1 DEF Within, Known
      <4>4. CASE Within(y, c + 1)
          BY <2>1, <4>1, <4>4 DEF Within, Known
      <4>5. ASSUME NEW r \in queued, r.cur = y, r.distance <= c + 1
            PROVE  \/ Within(y, closest[x].distance + 1)'
                   \/ \E t \in queued' : t.cur = y /\ t.distance <= closest'[x].distance + 1
        <5>1. CASE r = q
          <6>1. Within(y, c + 1)
            <7>1. 0 <= c + 1
                OBVIOUS
            <7>2. y = n /\ Known(n) /\ closest[n].distance = 0
                BY <1>1, <2>4, <4>5, <5>1 DEF ReachInv, ClosestFits
            <7> QED
                BY <7>1, <7>2 DEF Within
          <6> QED
              BY <2>1, <4>1, <6>1 DEF Within, Known
        <5>2. CASE r # q
            BY <2>1, <4>1, <4>5, <5>2
        <5> QED
            BY <5>1, <5>2
      <4> QED
          BY <4>2, <4>4, <4>5
    <3> QED
        BY <1>4, <1>5, <2>1, <3>1, <3>2 DEF ReachInv, ClosestFits, Known
  <2> QED
      BY <2>2, <2>3, <2>5, <2>6, <2>7 DEF ReachInv
<1>8. CASE h \notin direct[n]
  <2> DEFINE closer == Graph!Farther(closest[n], d)
             more == IF Graph!UpdateDescendants(n, closer)
                     THEN {[cur |-> m, entry |-> e, distance |-> d + 1] : m \in Graph!Callees(n)}
                     ELSE {}
             c2 == Graph!Closest(source, e, d)
  <2>1. /\ frontier' = (IF d = 1 /\ direct[n] = {} THEN frontier \cup {n} ELSE frontier)
        /\ reachable' = [reachable EXCEPT ![n] = @ \cup {h}]
        /\ closest' = (IF closer THEN [closest EXCEPT ![n] = c2] ELSE closest)
        /\ queued' = (queued \ {q}) \cup more
      BY <1>1, <1>2, <1>8 DEF Graph!Spread
  <2>2. c2 \in GraphNearest /\ c2 # None /\ c2.entry = e /\ c2.input = source /\ c2.distance = d
    <3>1. c2 \in GraphNearest
        BY <1>2, <1>3, <1>6 DEF Graph!Closest, GraphNearest
    <3>2. None \notin GraphNearest
        BY DEF Graph!ReachAssumption, GraphNearest, GraphHarnesses
    <3> QED
        BY <3>1, <3>2 DEF Graph!Closest
  <2>3. closer <=> ~ Within(n, d)
    <3>1. Known(n) => closest[n].distance \in Nat
        BY <1>6 DEF Known, GraphNearest
    <3> QED
        BY <3>1 DEF Graph!Farther, Within, Known
  <2>4. Graph!UpdateDescendants(n, closer) <=> h \notin reachable[n] \/ closer
      BY <1>2 DEF Graph!UpdateDescendants
  <2> HIDE DEF closer, c2
  <2>5. /\ closest' \in [GraphNodes -> GraphNearest \cup {None}]
        /\ \A x \in GraphNodes \ {n} : closest'[x] = closest[x]
        /\ closer => closest'[n] = c2
        /\ ~ closer => closest'[n] = closest[n]
      BY <1>6, <2>1, <2>2
  <2>6. /\ reachable' \in [GraphNodes -> SUBSET GraphHarnesses]
        /\ \A x \in GraphNodes \ {n} : reachable'[x] = reachable[x]
        /\ reachable'[n] = reachable[n] \cup {h}
      BY <1>6, <2>1
  <2>7. ASSUME NEW r \in more
        PROVE  \E m \in GraphNodes : <<n, m>> \in calls
               /\ r = [cur |-> m, entry |-> e, distance |-> d + 1]
      BY DEF Graph!Callees
  <2>8. ASSUME NEW m \in GraphNodes, <<n, m>> \in calls, h \notin reachable[n] \/ closer
        PROVE  [cur |-> m, entry |-> e, distance |-> d + 1] \in queued'
    <3>1. m \in Graph!Callees(n)
        BY <2>8 DEF Graph!Callees
    <3> QED
        BY <2>1, <2>4, <2>8, <3>1
  <2>9. \A r \in queued \ {q} : r \in queued'
      BY <2>1
  <2>10. queued' \subseteq Queued
    <3>1. ASSUME NEW r \in more PROVE r \in Queued
      <4>1. PICK m \in GraphNodes : r = [cur |-> m, entry |-> e, distance |-> d + 1]
          BY <2>7, <3>1
      <4> QED
          BY <4>1 DEF Queued
    <3> HIDE DEF more
    <3> QED
        BY <1>6, <2>1, <3>1
  <2>11. ASSUME NEW x \in GraphNodes
         PROVE  /\ Known(x) => Known(x)' /\ closest'[x].distance <= closest[x].distance
                /\ Known(n)' /\ closest'[n].distance <= d
    <3>1. Known(x) => closest[x].distance \in Nat
        BY <1>6 DEF Known, GraphNearest
    <3>2. CASE closer
      <4>1. Known(n)' /\ closest'[n].distance <= d
          BY <2>2, <2>5, <3>2 DEF Known
      <4>2. CASE x = n
        <5>1. Known(n) => d <= closest[n].distance
            BY <2>3, <3>1, <3>2, <4>2 DEF Within
        <5> QED
            BY <2>2, <2>5, <3>2, <4>1, <4>2, <5>1
      <4>3. CASE x # n
        <5>1. closest'[x] = closest[x]
            BY <2>5, <4>3
        <5> QED
            BY <3>1, <4>1, <5>1 DEF Known
      <4> QED
          BY <4>2, <4>3
    <3>3. CASE ~ closer
      <4>1. closest'[x] = closest[x] /\ closest'[n] = closest[n]
          BY <2>5, <3>3
      <4> QED
          BY <2>3, <3>1, <3>3, <4>1 DEF Known, Within
    <3> QED
        BY <3>2, <3>3
  <2> HIDE DEF more
  <2>12. ReachTypes'
    <3>1. frontier' \subseteq GraphNodes
        BY <1>6, <2>1
    <3> QED
        BY <1>4, <2>5, <2>6, <2>10, <3>1 DEF ReachInv, ReachTypes
  <2>13. QueueFits'
    <3>1. ASSUME NEW r \in queued'
          PROVE  /\ source' \in inputs' /\ r.entry \in source'.covers
                 /\ source'.harness \in direct'[r.entry]
                 /\ Leads(GraphNodes, calls', r.entry, r.cur, r.distance)
      <4>1. CASE r \in queued
          BY <1>4, <4>1 DEF ReachInv, QueueFits
      <4>2. CASE r \in more
        <5>1. PICK m \in GraphNodes :
                <<n, m>> \in calls /\ r = [cur |-> m, entry |-> e, distance |-> d + 1]
            BY <2>7, <4>2
        <5>2. Leads(GraphNodes, calls, e, m, d + 1)
            BY <1>3, <5>1, OneStepMore
        <5>3. r.cur = m /\ r.entry = e /\ r.distance = d + 1
            BY <5>1
        <5> QED
            BY <1>2, <1>3, <1>4, <5>2, <5>3
      <4> QED
          BY <2>1, <4>1, <4>2
    <3> QED
        BY <3>1 DEF QueueFits
  <2>14. ReachFits'
    <3>1. ASSUME NEW x \in GraphNodes, NEW y \in reachable'[x]
          PROVE  \E a \in Graph!HitBy(y)', k \in Nat : Leads(GraphNodes, calls', a, x, k)
      <4>1. CASE y \in reachable[x]
          BY <1>4, <1>5, <4>1 DEF ReachInv, ReachFits
      <4>2. CASE y \notin reachable[x]
        <5>1. x = n /\ y = h
            BY <2>6, <3>1, <4>2
        <5>2. e \in Graph!HitBy(h)
            BY <1>3 DEF Graph!HitBy
        <5> QED
            BY <1>3, <1>4, <1>5, <5>1, <5>2
      <4> QED
          BY <4>1, <4>2
    <3>2. ASSUME NEW x \in GraphNodes, NEW y \in GraphNodes, <<x, y>> \in calls', NEW z
                 \in GraphHarnesses,
                 GraphMarked(x, z)'
          PROVE  GraphMarked(y, z)' \/ (source'.harness = z /\ \E r \in queued' : r.cur = y)
      <4>1. GraphMarked(n, h)'
          BY <2>6 DEF GraphMarked
      <4>2. GraphMarked(y, z) => GraphMarked(y, z)'
          BY <1>4, <2>6 DEF GraphMarked
      <4>3. CASE GraphMarked(x, z)
        <5>1. GraphMarked(y, z) \/ (z = h /\ \E r \in queued : r.cur = y)
            BY <1>2, <1>4, <3>2, <4>3 DEF ReachInv, ReachFits
        <5>2. ASSUME z = h, NEW r \in queued, r.cur = y
              PROVE  GraphMarked(y, z)' \/ (source'.harness = z /\ \E t \in queued' : t.cur = y)
          <6>1. CASE r = q
              BY <1>1, <4>1, <5>2, <6>1
          <6>2. CASE r # q
              BY <1>2, <1>4, <2>9, <5>2, <6>2
          <6> QED
              BY <6>1, <6>2
        <5> QED
            BY <4>2, <5>1, <5>2
      <4>4. CASE ~ GraphMarked(x, z)
        <5>1. x = n /\ z = h /\ h \notin reachable[n]
            BY <1>4, <2>6, <3>2, <4>4 DEF GraphMarked
        <5>2. PICK r \in queued' : r = [cur |-> y, entry |-> e, distance |-> d + 1]
            BY <1>4, <2>8, <3>2, <5>1
        <5>3. r.cur = y
            BY <5>2
        <5> QED
            BY <1>2, <1>4, <5>1, <5>3
      <4> QED
          BY <4>3, <4>4
    <3> QED
        BY <3>1, <3>2 DEF ReachFits
  <2>15. FrontierFits'
    <3>1. frontier' \cap Graph!AllHit' = {}
        BY <1>5, <2>1 DEF ReachInv, FrontierFits, Graph!AllHit
    <3>2. ASSUME NEW x \in frontier' PROVE \E m \in Graph!AllHit' : <<m, x>> \in calls'
      <4>1. CASE x \in frontier
          BY <1>4, <1>5, <4>1 DEF ReachInv, FrontierFits
      <4>2. CASE x \notin frontier
        <5>1. x = n /\ d = 1
            BY <2>1, <3>2, <4>2
        <5>2. <<e, n>> \in calls
            BY <1>3, <5>1, OneStep
        <5>3. e \in Graph!AllHit
            BY <1>3 DEF Graph!AllHit
        <5> QED
            BY <1>4, <1>5, <5>1, <5>2, <5>3
      <4> QED
          BY <4>1, <4>2
    <3>3. ASSUME NEW x \in GraphNodes, NEW y \in GraphNodes, <<x, y>> \in calls', x
                 \in Graph!AllHit',
                 y \notin Graph!AllHit'
          PROVE  y \in frontier' \/ \E r \in queued' : r.cur = y /\ r.distance = 1
      <4>1. y \in frontier \/ \E r \in queued : r.cur = y /\ r.distance = 1
          BY <1>4, <1>5, <3>3 DEF ReachInv, FrontierFits
      <4>2. CASE y \in frontier
          BY <2>1, <4>2
      <4>3. ASSUME NEW r \in queued, r.cur = y, r.distance = 1
            PROVE  y \in frontier' \/ \E t \in queued' : t.cur = y /\ t.distance = 1
        <5>1. CASE r = q
          <6>1. y = n /\ d = 1 /\ direct[n] = {}
              BY <1>1, <1>5, <3>3, <4>3, <5>1 DEF Graph!AllHit
          <6> QED
              BY <2>1, <6>1
        <5>2. CASE r # q
            BY <2>9, <4>3, <5>2
        <5> QED
            BY <5>1, <5>2
      <4> QED
          BY <4>1, <4>2, <4>3
    <3> QED
        BY <3>1, <3>2, <3>3 DEF FrontierFits
  <2>16. ClosestFits'
    <3>1. ASSUME NEW x \in GraphNodes, Known(x)'
          PROVE  /\ closest'[x].input \in inputs'
                    /\ closest'[x].entry \in closest'[x].input.covers
                 /\ closest'[x].entry \in Graph!AllHit'
                 /\ Leads(GraphNodes, calls', closest'[x].entry, x, closest'[x].distance)
      <4>1. CASE closest'[x] = closest[x]
          BY <1>4, <1>5, <3>1, <4>1 DEF ReachInv, ClosestFits, Known
      <4>2. CASE x = n /\ closest'[n] = c2
        <5>1. e \in Graph!AllHit
            BY <1>3 DEF Graph!AllHit
        <5> QED
            BY <1>3, <1>4, <1>5, <2>2, <4>2, <5>1
      <4> QED
          BY <2>5, <4>1, <4>2
    <3>2. ASSUME NEW x \in Graph!AllHit' PROVE Known(x)' /\ closest'[x].distance = 0
      <4>1. x \in Graph!AllHit /\ x \in GraphNodes /\ Known(x) /\ closest[x].distance = 0
          BY <1>5 DEF ReachInv, ClosestFits, Graph!AllHit
      <4>2. Known(x)' /\ closest'[x].distance <= 0
          BY <2>11, <4>1
      <4>3. closest'[x].distance \in Nat
          BY <2>5, <4>1, <4>2 DEF Known, GraphNearest
      <4> QED
          BY <4>2, <4>3
    <3>3. ASSUME NEW x \in GraphNodes, NEW y \in GraphNodes, <<x, y>> \in calls', Known(x)'
          PROVE  \/ Within(y, closest[x].distance + 1)'
                 \/ \E r \in queued' : r.cur = y /\ r.distance <= closest'[x].distance + 1
      <4>1. PICK c \in Nat : c = closest'[x].distance
          BY <2>5, <3>3 DEF Known, GraphNearest
      <4>2. CASE x = n /\ closer
        <5>1. PICK r \in queued' : r = [cur |-> y, entry |-> e, distance |-> d + 1]
            BY <1>4, <2>8, <3>3, <4>2
        <5>2. closest'[x].distance = d
            BY <2>2, <2>5, <4>2
        <5>3. r.cur = y /\ r.distance <= closest'[x].distance + 1
            BY <5>1, <5>2
        <5> QED
            BY <5>3
      <4>3. CASE ~ (x = n /\ closer)
        <5>1. closest'[x] = closest[x] /\ Known(x)
            BY <2>5, <3>3, <4>3 DEF Known
        <5>2. Within(y, c + 1) \/ \E r \in queued : r.cur = y /\ r.distance <= c + 1
            BY <1>4, <3>3, <4>1, <5>1 DEF ReachInv, ClosestFits
        <5>3. CASE Within(y, c + 1)
          <6>1. Known(y)' /\ closest'[y].distance <= closest[y].distance
                /\ closest[y].distance <= c + 1
              BY <2>11, <5>3 DEF Within
          <6>2. closest'[y].distance \in Nat /\ closest[y].distance \in Nat
              BY <1>6, <2>5, <5>3, <6>1 DEF Known, Within, GraphNearest
          <6>3. closest'[y].distance <= c + 1
              BY <6>1, <6>2
          <6> QED
              BY <4>1, <6>1, <6>3 DEF Within
        <5>4. ASSUME NEW r \in queued, r.cur = y, r.distance <= c + 1
              PROVE  \/ Within(y, closest[x].distance + 1)'
                     \/ \E t \in queued' : t.cur = y /\ t.distance <= closest'[x].distance + 1
          <6>1. CASE r = q
            <7>1. y = n /\ d <= c + 1
                BY <1>1, <5>4, <6>1
            <7>2. Known(y)' /\ closest'[y].distance <= d
                BY <2>11, <7>1
            <7>3. closest'[y].distance \in Nat
                BY <2>5, <7>2 DEF Known, GraphNearest
            <7>4. closest'[y].distance <= c + 1
                BY <7>1, <7>2, <7>3
            <7> QED
                BY <4>1, <7>2, <7>4 DEF Within
          <6>2. CASE r # q
              BY <2>9, <4>1, <5>4, <6>2
          <6> QED
              BY <6>1, <6>2
        <5> QED
            BY <5>2, <5>3, <5>4
      <4> QED
          BY <4>2, <4>3
    <3> QED
        BY <3>1, <3>2, <3>3 DEF ClosestFits
  <2> QED
      BY <2>12, <2>13, <2>14, <2>15, <2>16 DEF ReachInv
<1> QED
    BY <1>7, <1>8

LEMMA RestartKeeps == ASSUME Graph!ReachAssumption, ReachInv, Graph!Restart PROVE ReachInv'
<1>1. /\ queued = {} /\ queued' = {} /\ calls' = calls /\ inputs' = inputs
      /\ direct' = Graph!Blank /\ reachable' = Graph!Blank /\ frontier' = {}
      /\ closest' = [n \in GraphNodes |-> None]
      /\ loading' = {[input |-> Graph!First(x[1], x[2]), node |-> x[1]] :
                       x \in {y \in GraphNodes \X {i.harness : i \in inputs} :
                       Graph!Of(y[1], y[2]) # {}}}
    BY DEF Graph!Restart
<1>2. ASSUME NEW row \in loading' PROVE row.input \in inputs' /\ row.node \in row.input.covers
  <2>1. PICK n \in GraphNodes, h \in {i.harness : i \in inputs} :
          Graph!Of(n, h) # {} /\ row = [input |-> Graph!First(n, h), node |-> n]
    <3>1. PICK x \in {y \in GraphNodes \X {i.harness : i \in inputs} :
               Graph!Of(y[1], y[2]) # {}} :
            row = [input |-> Graph!First(x[1], x[2]), node |-> x[1]]
        BY <1>1, <1>2
    <3> QED
        BY <3>1
  <2>2. \A i \in Graph!Of(n, h) : i \in inputs /\ n \in i.covers /\ i.id \in Nat
      BY DEF Graph!Of, ReachInv, ReachTypes, Graph!ReachAssumption
  <2>3. PICK ids \in SUBSET Nat : ids = {i.id : i \in Graph!Of(n, h)}
      BY <2>2
  <2>4. ids # {}
      BY <2>1, <2>3
  <2>5. PICK least \in ids : \A m \in ids : least <= m
      BY <2>4, LeastNumber
  <2>6. \E i \in Graph!Of(n, h) : \A j \in Graph!Of(n, h) : i.id <= j.id
      BY <2>3, <2>5
  <2>7. Graph!First(n, h) \in Graph!Of(n, h)
      BY <2>6 DEF Graph!First
  <2> QED
      BY <1>1, <2>1, <2>2, <2>7
<1>3. Graph!AllHit' = {}
    BY <1>1 DEF Graph!Blank, Graph!AllHit
<1>4. ReachTypes'
    BY <1>1, <1>2 DEF Graph!Blank, ReachInv, ReachTypes
<1>5. QueueFits' /\ ReachFits'
    BY <1>1 DEF Graph!Blank, QueueFits, ReachFits, GraphMarked
<1>6. FrontierFits' /\ ClosestFits'
    BY <1>1, <1>3 DEF Graph!Blank, FrontierFits, ClosestFits, Known
<1> QED
    BY <1>4, <1>5, <1>6 DEF ReachInv

LEMMA ReachNext ==
  ASSUME Graph!ReachAssumption, ReachInv, [Graph!Next]_(Graph!reachVars)
  PROVE  ReachInv'
<1>1. CASE UNCHANGED Graph!reachVars
  <2>1. /\ calls' = calls /\ direct' = direct /\ reachable' = reachable /\ frontier' = frontier
        /\ closest' = closest /\ inputs' = inputs /\ loading' = loading
        /\ source' = source /\ queued' = queued
      BY <1>1 DEF Graph!reachVars
  <2>2. Graph!AllHit' = Graph!AllHit /\ \A h : Graph!HitBy(h)' = Graph!HitBy(h)
      BY <2>1 DEF Graph!AllHit, Graph!HitBy
  <2>3. ReachTypes' /\ QueueFits'
      BY <2>1 DEF ReachInv, ReachTypes, QueueFits
  <2>4. ReachFits'
      BY <2>1, <2>2 DEF ReachInv, ReachFits, GraphMarked
  <2>5. FrontierFits'
      BY <2>1, <2>2 DEF ReachInv, FrontierFits
  <2>6. ClosestFits'
      BY <2>1, <2>2 DEF ReachInv, ClosestFits, Known, Within
  <2> QED
      BY <2>3, <2>4, <2>5, <2>6 DEF ReachInv
<1>2. CASE Graph!Next
    BY <1>2, AddNewHitsKeeps, AddNewHitKeeps, SpreadKeeps, RestartKeeps DEF Graph!Next
<1> QED
    BY <1>1, <1>2

LEMMA ReachMoves ==
  ASSUME [Next]_vars
  PROVE  UNCHANGED subject /\ (subject = "reach" => [Graph!Next]_(Graph!reachVars))
<1>1. CASE Next
    BY <1>1 DEF Next
<1>2. CASE UNCHANGED vars
  <2>1. UNCHANGED <<subject, reachVars>>
      BY <1>2 DEF vars
  <2>2. UNCHANGED Graph!reachVars
      BY <2>1 DEF reachVars, Graph!reachVars
  <2> QED
      BY <2>1, <2>2
<1> QED
    BY <1>1, <1>2

\* For any call graphs, inputs and harnesses: once the hits have spread, in whatever order they
\* were taken from the work set and after any restart, a node knows exactly the harnesses that
\* reach it, the frontier is the functions one call from a hit that nobody has hit, and closest
\* is at the least distance from a hit (add_new_hits, add_new_hit, initialize_graph).
THEOREM GraphIsAlwaysExact == Spec => []GraphIsExact
<1> DEFINE I == subject = "reach" => ReachInv
<1>1. Init => I
    BY ReachStarts, Assumptions DEF Init
<1>2. I /\ [Next]_vars => I'
    BY ReachNext, ReachMoves, Assumptions
<1>3. I => GraphIsExact
    BY ReachIsExact, Assumptions DEF GraphIsExact
<1> QED
    BY <1>1, <1>2, <1>3, PTL DEF Spec
===============================================================================
