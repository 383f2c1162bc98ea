------------------------------ MODULE MCProbes ------------------------------
(* Probes on a bus of three devices with codes of four bits, the first two *)
(* the family; one code more has a good CRC by chance.                     *)
EXTENDS Probes

MCRoms == {<<1, 0, 0, 1>>, <<1, 0, 1, 1>>, <<0, 1, 1, 0>>}
MCGenuine == MCRoms \cup {<<1, 1, 1, 0>>}
MCTempProbes == <<<<1, 0, 1, 1>>, <<0, 1, 1, 0>>>>
=============================================================================
