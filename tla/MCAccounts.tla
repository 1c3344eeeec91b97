------------------------------ MODULE MCAccounts ------------------------------
(* Two registrations of one login, and a third one with the email of the first.  The
   logins are told apart by a search for a_n only if its _ is taken literally. *)
EXTENDS UserSearch, TLC

CONSTANTS ann, ann2, bob

MCRegistrations == {ann, ann2, bob}
MCLoginOf == ann :> <<"a", "_", "n">> @@ ann2 :> <<"a", "_", "n">> @@ bob :> <<"A", "x", "n">>
MCEmailOf == ann :> "ann@" @@ ann2 :> "ann2@" @@ bob :> "ann@"
MCPasswordOf == ann :> 1 @@ ann2 :> 2 @@ bob :> 2
MCFirstNameOf == ann :> <<"a", "n">> @@ ann2 :> <<"n">> @@ bob :> <<"a", "n">>
MCLastNameOf == ann :> <<"x">> @@ ann2 :> <<"x", "a">> @@ bob :> <<"n">>

MCLower == [c \in {"a", "n", "x", "_", "%", "\\"} |-> c] @@ "A" :> "a"

\* Searches by login, by names, by both, and one that gives nothing.
MCMasks ==
    {<<"n">>, <<"x">>, <<"A", "_">>, <<"x", "n">>, <<"%", "n">>, <<"\\">>,
     <<"\\", "_">>}
Ask(login, first, last) == [login |-> login, first_name |-> first, last_name |-> last]
MCQueries ==
    {Ask(m, <<>>, <<>>) : m \in MCMasks}
    \cup {Ask(<<>>, <<"A">>, <<>>), Ask(<<>>, <<>>, <<"a">>), Ask(<<>>, <<"a">>, <<"n">>)}
    \cup {Ask(<<"x">>, <<"n">>, <<"x">>), Ask(<<>>, <<>>, <<>>)}
=============================================================================
