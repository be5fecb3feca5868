---------------------------- MODULE MCSubmission ----------------------------
(* Submission with accounts that differ in every respect that matters to it. *)
EXTENDS Submission

Account(kind, catenate, urlauth, startTls, auth, reply) ==
    [kind |-> kind, catenate |-> catenate, urlauth |-> urlauth,
     startTls |-> startTls, auth |-> auth, reply |-> reply]

MCConfigs ==
    {Account("smtp", FALSE, FALSE, TRUE, "none", FALSE),
     Account("smtp", FALSE, TRUE, FALSE, "ask", TRUE),
     Account("smtp", TRUE, TRUE, FALSE, "stored", FALSE),
     Account("sendmail", FALSE, TRUE, FALSE, "none", TRUE),
     Account("imap", TRUE, FALSE, FALSE, "none", FALSE),
     Account("imap", FALSE, TRUE, FALSE, "none", TRUE)}
=============================================================================
