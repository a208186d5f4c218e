----------------------------- MODULE MCLinkPass -----------------------------
(* Books of up to five rows in three documents for TLC. *)
EXTENDS LinkPass

Name == {"acme ltd", "acne ltd", "bix", ""}
MCSimilarity ==
    [p \in Name \X Name |->
        IF "" \in {p[1], p[2]} THEN 0
        ELSE IF p[1] = p[2] THEN 100
        ELSE IF "bix" \in {p[1], p[2]} THEN 0
        ELSE 93]

MCRowOf(d, t, a, on, name) ==
    [doc |-> d, type |-> t, amount |-> a, date |-> on, name |-> name, void |-> FALSE]
Inv(a, on, name) == MCRowOf(1, "invoice_line_item", a, on, name)
Bnk(a, on, name) == MCRowOf(2, "bank_transaction", -a, on, name)
Gl(a, on, name)  == MCRowOf(3, "gl_entry", a, on, name)
Void(row)        == [row EXCEPT !.void = TRUE]

MCRow == <<
    \* One of each, within a cent of the invoice and two cents from each other.
    Inv(10, 0, "acme ltd"), Bnk(9, 0, "acne ltd"), Gl(11, 0, "acme ltd"),
    \* The same, three days after the invoice.
    Inv(10, 0, "acme ltd"), Bnk(9, 3, "acne ltd"), Gl(11, 3, "acme ltd"),
    \* An invoice and a credit that all but cancels it.
    Inv(5, 0, "acme ltd"), Inv(-4, 0, "acme ltd"), Bnk(1, 0, "acme ltd"), Gl(1, 0, "acme ltd"),
    \* Two invoices in one payment, too unlike the GL entry to be worth a review.
    Inv(1, 0, "acme ltd"), Inv(2, 0, "acme ltd"), Bnk(2, 0, "acme ltd"), Gl(4, 20, "bix"),
    \* One invoice in two payments.
    Inv(10, 0, "acme ltd"), Bnk(5, 0, "acme ltd"), Bnk(5, 3, "acme ltd"), Gl(10, 3, "acme ltd"),
    \* One of two payments it may have been, and a voided entry.
    Inv(10, 0, "acme ltd"), Bnk(10, 0, "acme ltd"), Bnk(10, 0, "acme ltd"),
    Gl(10, 0, "acme ltd"), Void(Gl(10, 0, "acme ltd")),
    \* A triple with a misposted pair beside it.
    Inv(10, 0, "acme ltd"), Bnk(10, 0, "acme ltd"), Gl(10, 0, "acme ltd"), Bnk(20, 0, "bix"),
    Gl(16, 0, "bix")>>

MCBooks   == {1 .. 3, 7 .. 10, 11 .. 14, 15 .. 18, 19 .. 23, 24 .. 28}
ThreeDays == {4 .. 6}
WithTriples == {19 .. 23, 24 .. 28}
=============================================================================
