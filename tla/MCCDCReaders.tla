--------------------------- MODULE MCCDCReaders ---------------------------
(* Instances of CDCReaders: one source of every dialect. *)
EXTENDS CDCReaders

Source(dialect, kinds, interleaved, txs, records, window) ==
  [dialect |-> dialect, kinds |-> kinds, interleaved |-> interleaved, txs |-> txs,
   records |-> records, window |-> window, crashes |-> 1]

G2 == Source("gbase8s", {"DISCARD", "UPDATE"}, TRUE, 2, 7, 0)
G3 == Source("gbase8s", {"ABORT"}, TRUE, 3, 7, 0)
D2 == Source("db2", {"UPDATE", "COMPENSATE", "ABORT"}, FALSE, 2, 7, 0)
M2 == Source("dameng", {"TOGETHER", "ABORT"}, TRUE, 2, 6, 2)
M3 == Source("dameng", {}, TRUE, 2, 7, 2)
O3 == Source("oracle", {"BURST"}, FALSE, 3, 9, 4)
S2 == Source("sqlserver", {}, TRUE, 3, 7, 1)
B3 == Source("mysql", {"TRANSACTION", "FOREIGN", "DDL", "STATEMENT", "ROLLBACK"}, FALSE, 3, 10, 0)
T3 == Source("gtid", {"TRANSACTION", "FOREIGN", "DDL", "FOREIGN_DDL", "STATEMENT", "ROLLBACK"}, FALSE, 3, 10, 0)
P2 == Source("postgres", {"ABORT"}, TRUE, 2, 7, 0)
A2 == Source("gbase8a", {}, TRUE, 2, 6, 2)

MCScenarios == {G2, G3, D2, M2, M3, O3, S2, B3, T3, P2, A2}
Interleaved == {Source("db2", {}, TRUE, 2, 6, 0)}
=============================================================================
