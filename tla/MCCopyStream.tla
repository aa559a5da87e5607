---------------------------- MODULE MCCopyStream ----------------------------
(* Values of the constants for the runs of the payload-copy flow.          *)
EXTENDS CopyStreamInv
MCBuffers == 0..(BufferCount - 1)

(* The last buffer is one unit longer than a picture.                      *)
MCBufLen ==
    [b \in MCBuffers |-> IF b = BufferCount - 1 THEN SizeImage + 1 ELSE SizeImage]

(* Empty, short and too long.                                              *)
MCRawSizes == {0, SizeImage - 1, SizeImage + 1}
=============================================================================
