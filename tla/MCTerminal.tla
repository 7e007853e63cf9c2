----------------------------- MODULE MCTerminal -----------------------------
(* Rows of the terminal interface: two waiting downloads and an active one *)
EXTENDS TuiApp

Row(n, status, batch) ==
    [name |-> n, status |-> status, held |-> FALSE, words |-> {}, batch |-> batch,
     completed |-> 0, total |-> 1, speed |-> 0, eta |-> -1]
RowsAbout == [g \in Gid |-> CASE g = "d1" -> [Row(1, "waiting", 1) EXCEPT !.words = {"iso"}]
                              [] g = "d2" -> Row(2, "waiting", -1)
                              [] g = "d3" -> Row(3, "active", 0)]
RowsEnd == [g \in Gid |-> "complete"]
=============================================================================
