---------------------------- MODULE CommandLine ----------------------------
(***************************************************************************)
(* The arguments of a recording on their way from start() to the native    *)
(* program: the defaults of RecorderThread and the checks of main().       *)
(***************************************************************************)
EXTENDS Integers, Sequences

FALLBACK_WIDTH == 720
FALLBACK_HEIGHT == 1280
FALLBACK_BITRATE == 2000000
MAX_TIME_LIMIT == 24 * 60 * 60

kMinBitRate == 100000
kMaxBitRate == 100 * 1000000
kMaxTimeLimitSec == 60 * 60 * 24

\* Mutant: width and height are exchanged
SizeSwapped(width, height) ==
  IF width <= 0 \/ height <= 0 THEN <<FALLBACK_WIDTH, FALLBACK_HEIGHT>> ELSE <<height, width>>

SizeOf(width, height) ==
  IF width <= 0 \/ height <= 0 THEN <<FALLBACK_WIDTH, FALLBACK_HEIGHT>> ELSE <<width, height>>

\* the command line of RecorderThread, as main() parses it
Command(width, height, bitRate, timeLimit, rotate) ==
  [size |-> SizeOf(width, height),
   bitRate |-> IF bitRate > 0 THEN bitRate ELSE FALLBACK_BITRATE,
   timeLimit |-> IF timeLimit <= 0 \/ timeLimit > MAX_TIME_LIMIT THEN MAX_TIME_LIMIT ELSE timeLimit,
   rotate |-> rotate]

\* Mutant: the limit itself is refused
AcceptsBelowLimit(command) ==
  /\ command.size[1] # 0 /\ command.size[2] # 0
  /\ command.bitRate \in kMinBitRate .. kMaxBitRate
  /\ command.timeLimit \in 1 .. kMaxTimeLimitSec - 1

\* main() goes on to open the output file: it does not return 2
Accepts(command) ==
  /\ command.size[1] # 0 /\ command.size[2] # 0
  /\ command.bitRate \in kMinBitRate .. kMaxBitRate
  /\ command.timeLimit \in 1 .. kMaxTimeLimitSec
=============================================================================
