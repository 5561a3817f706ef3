------------------------------- MODULE MCBZip2 -------------------------------
(***************************************************************************)
(* Instances of BZip2EncoderMt and BZip2DecoderMt for TLC: a behaviour is  *)
(* one of the encoder or one of the decoder.                               *)
(***************************************************************************)
EXTENDS BZip2EncoderMt

CONSTANT DecoderFailure

VARIABLE codec

\* The variables have the same names; file and dec stand in those of the
\* encoder that hold the input and the shared fields.
Decoder == INSTANCE BZip2DecoderMt WITH
  file <- blocks, dec <- enc, Failure <- DecoderFailure

mcVars == <<codec, vars>>
mcInit ==
  \/ codec = "encoder" /\ Init
  \/ codec = "decoder" /\ Decoder!Init

mcNext ==
  /\ UNCHANGED codec
  /\ \/ codec = "encoder" /\ Next
     \/ codec = "decoder" /\ Decoder!Next

mcCallerStep == UNCHANGED codec /\ IF codec = "encoder" THEN CallerStep ELSE Decoder!CallerStep
mcThreadStep(t) ==
  UNCHANGED codec /\ IF codec = "encoder" THEN ThreadStep(t) ELSE Decoder!ThreadStep(t)

mcSpec ==
  /\ mcInit /\ [][mcNext]_mcVars
  /\ WF_mcVars(mcCallerStep) /\ \A t \in Thread : WF_mcVars(mcThreadStep(t))

\* Encoder and decoder write the blocks in the order of the file, whatever
\* threads wait for their turn (BZip2Encoder.cpp:685, BZip2Decoder.cpp:755).
BothWriteInOrder ==
  IF codec = "encoder" THEN TypeOK /\ BlocksInOrder
  ELSE Decoder!TypeOK /\ Decoder!BlocksInOrder

\* The encoder returns S_OK only if it wrote everything, and the decoder
\* returns what one thread would have returned, with the same blocks written.
ResultIsRight == IF codec = "encoder" THEN SuccessIsComplete ELSE Decoder!AsOneThread

\* Between two calls of Code all threads of either wait at the closed gate.
BothAreParked == IF codec = "encoder" THEN ThreadsAreParked ELSE Decoder!ThreadsAreParked
=============================================================================
