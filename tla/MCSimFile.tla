------------------------------ MODULE MCSimFile ------------------------------
(* Small instances of SimFile: a buffer of three bytes.                    *)
EXTENDS SimFile, TLC

Op(op, o, n) == [op |-> op, byteOffset |-> o, length |-> n, standard |-> TRUE]

\* Writes and reads that overlap in part, touch the last byte, are empty, or end
\* one byte beyond the buffer; offsets above a ULONG; both kinds of query.
MCParams ==
    {Op("WRITE", 0, 2), Op("WRITE", 1, 2), Op("WRITE", 2, 2), Op("WRITE", 2, 0),
     Op("READ", 0, 3), Op("READ", Word, 1), Op("READ", 3, 1),
     Op("QUERY", 0, 1), [Op("QUERY", 0, 1) EXCEPT !.standard = FALSE]}

IrpSymmetry == Permutations(Irps)
=============================================================================
