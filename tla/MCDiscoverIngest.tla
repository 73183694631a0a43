-------------------------- MODULE MCDiscoverIngest --------------------------
(***************************************************************************)
(* The DiscoverIngest instance TLC checks: one file of a filesystem source *)
(* and one of a plugin; content t2 has other columns than t1, and bytes    *)
(* that are not UTF-8; t3 is empty.                                        *)
(***************************************************************************)
EXTENDS DiscoverIngest, TLC

CONSTANTS f1, g1, folder, mailbox, t1, t2, t3, cols1, cols2

MCItems == {f1, g1}
MCSourceOf == (f1 :> folder) @@ (g1 :> mailbox)
MCColumnsOf == (t1 :> cols1) @@ (t2 :> cols2) @@ (t3 :> NoColumns)

\* The file of the plugin starts as t1; an edit makes it any other.
MCInit == Init /\ file[g1].content = t1

MCSpec == MCInit /\ [][Next]_vars /\ WF_vars(Ingest)
====
