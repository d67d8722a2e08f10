----------------------------- MODULE MCZ80Core ------------------------------
(***************************************************************************)
(* Z80History on a small machine.  Addresses are taken modulo 4, so that   *)
(* the NMI entry 0x66 is 2 and both 0x38 and the RST entries are 0; R      *)
(* counts modulo 2.  255 is RST 38h; 0 is not an RST, so mode 0 fails on it.*)
(***************************************************************************)
EXTENDS Z80History

MCTargets == {0, 2}
MCPrefixes == {0, 1}
MCOpForms == {f \in (1 .. 4) \X (1 .. 2) : f[2] <= f[1]}
MCRegs == {0}
MCVectors == {0, 255}
=============================================================================
