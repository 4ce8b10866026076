--------------------------- MODULE MCQuotationMail ---------------------------
(* A small instance of QuotationMail: a Visit quotation and the Part quotation
   after it, on one work order; the second may have been raised without the
   customer's address. *)
EXTENDS QuotationMail

CustomersOf == 1 :> {"c"} @@ 2 :> {"c", NoOne}
OrderOf == 1 :> "w" @@ 2 :> "w"

\* The customer says so and quotes a reference, with the work order in the mail,
\* or sends a bare receipt without it; HP sends a picture about the job.
Mail(from, order, letter) == [from |-> from, order |-> order, letter |-> letter]
Arriving == {Mail("c", "w", "proof"),
             Mail("c", NoOne, "receipt"), Mail("hp", "w", "receipt")}
=============================================================================
