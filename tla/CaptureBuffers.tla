--------------------------- MODULE CaptureBuffers ---------------------------
(* The buffers the capture driver granted, common to both flows.           *)
EXTENDS Integers

CONSTANTS
    Buffers         \* the buffers REQBUFS granted

ASSUME BuffersAssumption == Buffers # {}

(* A buffer that holds no frame yet.                                       *)
NoFrame == -1
=============================================================================
