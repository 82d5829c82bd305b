---------------------------- MODULE MCTlsCapture -----------------------------
(***************************************************************************)
(* An instance of TlsCapture for TLC: a conforming flight, one that asks   *)
(* for a client certificate, a resumed one without certificates, and ones  *)
(* with a message that nearly fills the buffer or is announced too large.  *)
(***************************************************************************)
EXTENDS TlsCapture

MCUnits == [ServerHello |-> 2, EncryptedExtensions |-> 1, Certificate |-> 3,
            CertificateVerify |-> 2, CertificateRequest |-> 1, Finished |-> 1,
            BigExtensions |-> 7, HugeExtensions |-> 8]

MCFlights ==
    {<<"EncryptedExtensions", "Certificate", "CertificateVerify", "Finished">>,
     <<"EncryptedExtensions", "CertificateRequest", "Certificate">>,
     <<"EncryptedExtensions", "Finished">>,
     <<"BigExtensions", "Certificate">>,
     <<"HugeExtensions">>}

MCFaults == {"alert", "junk", "damage", "close"}
==============================================================================
