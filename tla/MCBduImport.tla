---------------------------- MODULE MCBduImport ----------------------------
(* Model checking BduImport: files that name the same records and CVEs in  *)
(* different orders, a record twice in one file, and one without a CVE.    *)
EXTENDS BduImport

CONSTANTS b1, b2, c1, c2

Rise == <<[id |-> b1, cves |-> <<c1, c2>>], [id |-> b2, cves |-> <<c2>>],
          [id |-> b1, cves |-> <<>>]>>
Fall == <<[id |-> b2, cves |-> <<c1>>], [id |-> b1, cves |-> <<c2>>],
          [id |-> b2, cves |-> <<c1, c2>>]>>
MCFiles == {Rise, Fall}
=============================================================================
