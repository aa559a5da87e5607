---------------------------- MODULE MCCopySetup -----------------------------
(* Values of the constants for the runs of the copy flow's setup.          *)
EXTENDS CopySetupInv
MCGrants == {1, 3}
MCSizes == {0, 1}
MCPrograms == {"receiver", "receiver_sdl"}
MCModes == {"auto", "dmabuf", "mmap"}
=============================================================================
