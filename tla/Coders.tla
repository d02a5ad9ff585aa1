-------------------------------- MODULE Coders --------------------------------
(***************************************************************************)
(* Decoders and encoders of one harness: the jobs GENERATE_DECODER,        *)
(* GENERATE_ENCODER and FLIP_BRANCH of crs/app/app.py make them, keep them *)
(* in the tables decoders and encoders of products_db.py and ask for them  *)
(* under decoder_locks and encoder_locks.                                  *)
(*                                                                         *)
(* Making one runs an agent for minutes and may fail; a job that fails or  *)
(* times out is tried again, and lets go of its locks as it is left.       *)
(***************************************************************************)
EXTENDS Integers, Sequences, SequencesExt, FiniteSets

CONSTANTS
  Jobs,      \* "decoder", "encoder raw", "encoder python" and some flips
  Flips,     \* those that flip a branch
  Attempts,  \* of each job
  None

CodersAssumption ==
  /\ Flips \subseteq Jobs \ {"decoder"} /\ Attempts \in Nat \ {0}
  /\ None \notin Jobs \cup {"raw", "python"}

VARIABLES
  decoders,   \* table decoders: how many rows there are of the python type
  encoders,   \* table encoders: the column decoder_type of each row
  decLock, encLock,  \* holder of the decoder lock and of the encoder lock of each type
  at,        \* where each job is
  want, got, \* the type it wants, and what it has found
  decoded,   \* did a decoder decode its input?
  tries      \* attempts left

jobVars == <<at, want, got, decoded, tries>>
codersVars == <<decoders, encoders, decLock, encLock, jobVars>>

Types == {"raw", "python"}  \* decoder_type: NULL or PythonHarnessInputDecoder
Fresh(j) == IF j = "encoder python" THEN "python" ELSE "raw"
Busy(j) == at[j] \notin {"start", "done"}
\* The tables: add_decoder, get_decoders, add_encoder, get_encoders.
AddDecoder == decoders' = decoders + 1
HasDecoders == decoders > 0
AddEncoder(type) == encoders' = Append(encoders, type)
Encoders(type) == {i \in DOMAIN encoders : encoders[i] = type}
Move(j, place) == at' = [at EXCEPT ![j] = place] /\ UNCHANGED <<want, got, decoded, tries>>
Has(j, type) ==
  /\ at' = [at EXCEPT ![j] = "done"] /\ got' = [got EXCEPT ![j] = type]
  /\ UNCHANGED <<want, decoded, tries>>

Init ==
  /\ decoders = 0 /\ encoders = <<>>
  /\ decLock = None /\ encLock = [t \in Types |-> None]
  /\ at = [j \in Jobs |-> "start"] /\ want = [j \in Jobs |-> Fresh(j)]
  /\ got = [j \in Jobs |-> None] /\ decoded = [j \in Jobs |-> FALSE]
  /\ tries = [j \in Jobs |-> Attempts]

(***************************************************************************)
(* generate_decoder: the count it was queued with is 0 (analyze_harness),  *)
(* so that "len(decoders) < cur_count" never skips it.                     *)
(***************************************************************************)
GenerateDecoder ==
  LET j == "decoder"
  IN /\ j \in Jobs /\ at[j] = "start" /\ decLock = None
     /\ decLock' = j
     /\ Move(j, "decoding")
     /\ UNCHANGED <<decoders, encoders, encLock>>

\* decode_pov: get_decoders without generating, the newest first.  The variable
\* decoder keeps the last one tried when none of them can decode the input.
DecodePov(j) ==
  /\ j \in Flips /\ at[j] = "start" /\ decLock = None
  /\ at' = [at EXCEPT ![j] = "wantEncoder"]
  /\ want' = [want EXCEPT ![j] = IF HasDecoders THEN "python" ELSE "raw"]
  /\ \E worked \in BOOLEAN :
       (worked => HasDecoders) /\ decoded' = [decoded EXCEPT ![j] = worked]
  /\ UNCHANGED <<got, tries, decoders, encoders, decLock, encLock>>

StartEncoder(j) ==
  /\ j \notin Flips \cup {"decoder"} /\ at[j] = "start"
  /\ Move(j, "wantEncoder")
  /\ UNCHANGED <<decoders, encoders, decLock, encLock>>

(***************************************************************************)
(* get_encoder takes the latest encoder of its type or makes one;          *)
(* generate_encoder makes one always.  Both make it with the latest        *)
(* decoder when one is wanted, which may have to be made first, and go on  *)
(* without when that fails: such an encoder is stored as a raw one.        *)
(***************************************************************************)
Suits(j) == j \in Flips /\ Encoders(want[j]) # {}

TakeEncoder(j) ==
  /\ at[j] = "wantEncoder" /\ encLock[want[j]] = None
  /\ Suits(j)
  /\ Has(j, want[j])
  /\ UNCHANGED <<decoders, encoders, decLock, encLock>>

MakeEncoder(j) ==
  /\ at[j] = "wantEncoder" /\ encLock[want[j]] = None
  /\ ~Suits(j)
  /\ encLock' = [encLock EXCEPT ![want[j]] = j]
  /\ Move(j, IF want[j] = "python" THEN "wantDecoder" ELSE "encoding raw")
  /\ UNCHANGED <<decoders, encoders, decLock>>

NeverPresent == FALSE \* Mutant: the table is not read again under the lock
Present == HasDecoders

GetDecoder(j) ==
  /\ at[j] = "wantDecoder" /\ decLock = None
  /\ decLock' = IF Present THEN None ELSE j
  /\ Move(j, IF Present THEN "encoding python" ELSE "decoding")
  /\ UNCHANGED <<decoders, encoders, encLock>>

Decoded(j) ==
  /\ at[j] = "decoding"
  /\ decLock' = None
  /\ \/ /\ AddDecoder
        /\ Move(j, IF j = "decoder" THEN "done" ELSE "encoding python")
     \/ /\ UNCHANGED decoders
        /\ j # "decoder" /\ Move(j, "encoding raw")
  /\ UNCHANGED <<encoders, encLock>>

Encoded(j) ==
  /\ at[j] \in {"encoding raw", "encoding python"}
  /\ LET type == IF at[j] = "encoding raw" THEN "raw" ELSE "python"
     IN AddEncoder(type) /\ Has(j, type)
  /\ encLock' = [encLock EXCEPT ![want[j]] = None]
  /\ UNCHANGED <<decoders, decLock>>

\* An agent gave up, the time of the work type is over, or the process ended.
Unlocked(lock, j) == IF lock = j THEN None ELSE lock

TriedAgain(j) ==
  /\ Busy(j)
  /\ \/ /\ tries[j] = 1
        /\ Move(j, "done")
     \/ /\ tries[j] > 1
        /\ tries' = [tries EXCEPT ![j] = @ - 1] /\ at' = [at EXCEPT ![j] = "start"]
        /\ want' = [want EXCEPT ![j] = Fresh(j)] /\ decoded' = [decoded EXCEPT ![j] = FALSE]
        /\ UNCHANGED got
  /\ decLock' = Unlocked(decLock, j)
  /\ encLock' = [t \in Types |-> Unlocked(encLock[t], j)]
  /\ UNCHANGED <<decoders, encoders>>

Next ==
  \/ GenerateDecoder
  \/ \E j \in Jobs : \/ DecodePov(j) \/ StartEncoder(j) \/ TakeEncoder(j) \/ MakeEncoder(j)
                     \/ GetDecoder(j) \/ Decoded(j) \/ Encoded(j) \/ TriedAgain(j)
CodersSpec == Init /\ [][Next]_codersVars

(***************************************************************************)
(* Properties.                                                             *)
(***************************************************************************)
\* An agent costs minutes and money.  GENERATE_DECODER and GENERATE_ENCODER make one more of
\* their kind whatever there is; a coder that is made because somebody needs it is made only
\* while there is none, and one decoder at a time, whoever else makes one or gives up
\* meanwhile.  A raw encoder may appear while a flip makes one: one that was wanted for a
\* decoder is stored as raw when no decoder could be made.
WasForPython(j) == want[j] = "python" /\ got[j] = "raw"
MadeWhenMissing ==
  /\ \A j \in Jobs \ {"decoder"} : at[j] = "decoding" => decoders = 0
  /\ Cardinality({j \in Jobs : at[j] = "decoding"}) <= 1
  /\ encLock["python"] \in Flips => Encoders("python") = {}
  /\ encLock["raw"] \in Flips => Encoders("raw") = {} \/ \E j \in Jobs : WasForPython(j)

\* Whoever asked gets one: a flip that ends has an encoder of the type it wanted, python if
\* there was a decoder when it began, unless its last attempt failed.
AskersAreServed ==
  \A j \in Flips : at[j] = "done" =>
    (got[j] = want[j] /\ Encoders(want[j]) # {}) \/ (got[j] = None /\ tries[j] = 1)

OnDemandOnce == MadeWhenMissing /\ AskersAreServed

\* "fetch corresponding encoder": a flip encodes with the counterpart of what decoded its
\* input.  When no decoder could, decode_pov still returns the last it tried.
EncoderFits ==
  \A j \in Flips : at[j] = "done" /\ got[j] = "python" => decoded[j]
=============================================================================
