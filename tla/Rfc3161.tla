------------------------------- MODULE Rfc3161 -------------------------------
(***************************************************************************)
(* The RFC 3161 client: which answers of a Time-Stamp Authority            *)
(* submit_to_tsa takes for a token, and which tokens verify_tst accepts.   *)
(***************************************************************************)
EXTENDS Naturals

\* A message imprint: the algorithm, and the data it was computed from.
Imprint(algorithm, data) == [algorithm |-> algorithm, data |-> data]

\* Data is the id of a chain head; 0 is none.
OtherData == 0

GrantingStatuses == {"granted", "granted_with_mods"}

\* An answer: the HTTP status, whether the body decodes, its PKIStatus, its
\* TSTInfo (which the accessors may be unable to read), and the imprint in it.
AnswersWith(imprints) ==
    [http: {200, 503}, decodes: BOOLEAN, status: GrantingStatuses \cup {"rejection"},
     info: {"absent", "unreadable", "present"}, imprint: imprints]

AnswerType == AnswersWith([algorithm: {"sha256", "sha512"}, data: Nat])

\* What a TSA that is reached may answer when asked for the data: nothing
\* makes the imprint that of the request.
Answers(data) ==
    AnswersWith({Imprint("sha256", data), Imprint("sha512", data),
                 Imprint("sha256", OtherData)})

\* Mutant: the PKIStatus is not looked at.
SubmitAcceptsAny(a) == a.http = 200 /\ a.decodes /\ a.info = "present"

\* submit_to_tsa: the imprint is read for its algorithm, and compared with nothing.
SubmitAccepts(a) ==
    a.http = 200 /\ a.decodes /\ a.status \in GrantingStatuses /\ a.info = "present"

\* It reads a TSTInfo outside any try: what the accessors raise is no TSAError.
SubmitEscapes(a) ==
    a.http = 200 /\ a.decodes /\ a.status \in GrantingStatuses /\ a.info = "unreadable"

VerifyTst(a, data) ==
    /\ a.decodes /\ a.status \in GrantingStatuses /\ a.info = "present"
    /\ a.imprint.algorithm = "sha256"
    /\ a.imprint.data = data

=============================================================================
