-------------------------- MODULE MCGpuAttestation --------------------------
(* Bounded instance of GpuAttestation: the command lines worth telling apart. *)
EXTENDS GpuAttestation

CommandLine == [userMode |-> FALSE, testNoGpu |-> FALSE, driverRim |-> FALSE,
                vbiosRim |-> FALSE, nonce |-> "valid", rimRoot |-> FALSE,
                configOk |-> TRUE]

(* The service's command line, and each deviation from it the code reacts to. *)
MCOptions ==
    {CommandLine,
     [CommandLine EXCEPT !.userMode = TRUE, !.nonce = "absent"],
     [CommandLine EXCEPT !.driverRim = TRUE, !.nonce = "invalid"],
     [CommandLine EXCEPT !.vbiosRim = TRUE],
     [CommandLine EXCEPT !.rimRoot = TRUE],
     [CommandLine EXCEPT !.configOk = FALSE],
     [CommandLine EXCEPT !.testNoGpu = TRUE]}
=============================================================================
