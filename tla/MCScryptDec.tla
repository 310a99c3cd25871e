----------------------------- MODULE MCScryptDec -----------------------------
(* ScryptDec with 2-cell authenticators and 2-cell blocks.  The encryptor    *)
(* produced three ciphertexts; the inputs are those with their              *)
(* authenticators, whole, truncated, extended, altered or exchanged.        *)
EXTENDS ScryptDec

CONSTANTS a, b

MCAuthentic == {<<>>, <<a>>, <<a, b, a>>}
MCTag == [c \in MCAuthentic |-> <<<<1, c>>, <<2, c>>>>]
MCInputs == {c \o MCTag[c] : c \in MCAuthentic}
            \cup {<<b, b, a>> \o MCTag[<<a, b, a>>],
                  <<a, b, a, MCTag[<<a, b, a>>][1]>>,
                  <<a>> \o MCTag[<<a>>] \o MCTag[<<>>]}
MCCells == {a, b} \cup {MCTag[c][i] : c \in MCAuthentic, i \in 1..2}
=============================================================================
