------------------------------- MODULE MCStartup -------------------------------
(***************************************************************************)
(* Startup for TLC: every command line of one to three words from a small  *)
(* vocabulary, and sizes on both sides of every limit.                     *)
(***************************************************************************)
EXTENDS Startup, TLC

MCFlags == {<<"-", "v", "f">>, <<"-", "-">>, <<"-">>, <<"-", "f", "-">>, <<"-", "P">>,
            <<"-", "-", "log">>}
MCArguments == {<<"-", "-", "logN", "=", "16">>, <<"-", "-", "logN">>, <<"-", "p", "8">>,
                <<"-", "f", "M", "6">>, <<"-", "m">>}
MCWords == {<<"16">>, <<"8">>, <<"1.0">>, <<"0.5">>, <<"in">>}
MCEntries == {<<"-", "-", "passphrase", "=", "env:", "V">>, <<"-", "-", "passphrase", "=">>,
              <<"-", "-", "passphrase", "=", "file:", "V">>,
              <<"-", "-", "passphrase", "=", "dev:", "tty-once">>}
MCSizes == {<<"6", "5", "5", "3", "5">>, <<"6", "5", "5", "3", "6">>, <<"6", "5", "5", "4", "0">>,
            <<"6", "5", " ", "k", "B">>, <<"6", "6", "k">>, <<"0", "6">>, <<>>, <<"k">>,
            <<"5", "B", "B">>, <<"5", " ">>, <<" ", "5">>, <<"9", " ", "B">>, <<"9", "k", "k">>,
            <<"6", "5", "5", "3", "5", "0">>, <<"3", "2", "7", "6", "7">>, <<"3", "2", "7", "6", "8">>}

MCLines ==
  LET all == MCFlags \cup MCArguments \cup MCWords \cup MCEntries IN
  SeqOf(all, 2) \cup {<<x, y, <<"in">> >> : x \in all, y \in all}
    \cup {<< <<"-", "M">>, x, <<"in">> >> : x \in MCSizes}
    \cup {<< <<"-", "-", "logN">>, <<"16">>, <<"-", "p", "8">>, <<"-", "r", "8">>,
             <<"-", "v", "t", "5">>, <<"in">>, <<"out">> >>,
          << <<"-", "t">>, <<"-", "1">>, <<"in">> >>, << <<"-", "r">>, <<"1.0">>, <<"in">> >>,
          << <<"-", "p", "0">>, <<"in">> >>}

MCIntOf == <<"16">> :> 16 @@ <<"8">> :> 8 @@ <<"5">> :> 5 @@ <<"-", "1">> :> -1
MCFracOf == <<"1.0">> :> 8 @@ <<"0.5">> :> 4 @@ <<"8">> :> 64 @@ <<"16">> :> 128
MCDigit == [x \in {"0", "2", "3", "4", "5", "6", "7", "8", "9"} |-> CHOOSE n \in 0..9 : ToString(n) = x]
MCPrefix == "k" :> 1000
=============================================================================
