------------------------------ MODULE UserSearch ------------------------------
(***************************************************************************)
(* GET /api/users/search: UserSearchHandler and the two searches of         *)
(* PostgresStorage over the table users, read from any standby.             *)
(*                                                                          *)
(* A text is a sequence of characters.  The masks a client sends are put    *)
(* between two % and matched by ILIKE; nothing escapes what the client      *)
(* sends, so % _ and \ in a mask keep their meaning for ILIKE.              *)
(***************************************************************************)
EXTENDS Accounts, FiniteSets

CONSTANTS
    FirstNameOf, LastNameOf,   \* of the user each registration makes
    Lower,                     \* the lower case of each character
    Queries,                   \* the masks of each request; <<>> when one is not given
    SearchLimit                \* LIMIT of both searches (100)

Texts == Seq(DOMAIN Lower)

ASSUME SearchConstants ==
    /\ {DOMAIN FirstNameOf, DOMAIN LastNameOf} = {Registrations}
    /\ \A u \in Registrations : {LoginOf[u], FirstNameOf[u], LastNameOf[u]} \subseteq Texts
    /\ Queries \subseteq [login : Texts, first_name : Texts, last_name : Texts]
    /\ SearchLimit \in Nat

Same(a, b) == Lower[a] = Lower[b]

Wildcards == {"%", "_", "\\"}

\* Where in the text the pattern from its i-th character on matches the rest of the
\* text, given the places of what follows the i-th character.
LikePlaces(text, pattern, i, places) ==
    LET m == Len(pattern)
        n == Len(text)
        Takes(j, c) == j <= n /\ Same(text[j], c)
    IN  IF i > m THEN {n + 1}
        ELSE {j \in 1 .. n + 1 :
                \/ pattern[i] = "%" /\ \E k \in places[i + 1] : j <= k
                \/ pattern[i] = "_" /\ j <= n /\ j + 1 \in places[i + 1]
                \/ pattern[i] = "\\" /\ i < m /\ Takes(j, pattern[i + 1]) /\ j + 1 \in places[i + 2]
                \/ pattern[i] \notin Wildcards /\ Takes(j, pattern[i]) /\ j + 1 \in places[i + 1]}

\* text ILIKE pattern.  A pattern that ended in a lone backslash would be an error;
\* MakeLikePattern makes none.
ILike(text, pattern) ==
    LET places[i \in 1 .. Len(pattern) + 1] == LikePlaces(text, pattern, i, places)
    IN  1 \in places[1]

\* Mutant: the mask has to begin the text.
MakePrefixPattern(mask) == mask \o <<"%">>

MakeLikePattern(mask) == IF mask = <<>> THEN <<"%">> ELSE <<"%">> \o mask \o <<"%">>

\* Whether a request asks for anything; otherwise its answer is 400.
Asks(q) == \E mask \in {q.login, q.first_name, q.last_name} : mask # <<>>

\* The login decides alone when it is given.
Selects(q, u) ==
    IF q.login # <<>> THEN ILike(LoginOf[u], MakeLikePattern(q.login))
    ELSE /\ ILike(FirstNameOf[u], MakeLikePattern(q.first_name))
         /\ ILike(LastNameOf[u], MakeLikePattern(q.last_name))

Selected == [q \in Queries |-> {u \in Registrations : Selects(q, u)}]

\* What a host that has these rows may answer: LIMIT keeps any SearchLimit of them.
Search(q, rows) ==
    LET hits == rows \cap Selected[q]
    IN  IF Cardinality(hits) <= SearchLimit THEN {hits}
        ELSE {s \in SUBSET hits : Cardinality(s) = SearchLimit}

-----------------------------------------------------------------------------
(* Properties *)

\* The reference: a text that has the mask in it, whatever the case of its letters.
Contains(text, mask) ==
    \E k \in 0 .. Len(text) - Len(mask) :
        \A i \in 1 .. Len(mask) : Same(text[k + i], mask[i])

Wanted ==
    [q \in Queries |->
        {u \in Registrations :
            IF q.login # <<>> THEN Contains(LoginOf[u], q.login)
            ELSE /\ Contains(FirstNameOf[u], q.first_name)
                 /\ Contains(LastNameOf[u], q.last_name)}]

CharactersOf(q) ==
    UNION {{mask[i] : i \in DOMAIN mask} : mask \in {q.login, q.first_name, q.last_name}}

Special == [q \in Queries |-> CharactersOf(q) \cap Wildcards]

\* A search answers with users the client asked for, when its masks have no special
\* character, and with all of them, as far as the host has them and the limit goes.
\* With % and _ it may answer with others as well, and only with \ may it miss some.
SearchFinds ==
    \A q \in Queries, n \in Positions : Asks(q) =>
        LET wanted == RowsUpTo(n) \cap Wanted[q] IN
        \A answer \in Search(q, RowsUpTo(n)) :
            /\ answer \subseteq Rows
            /\ Special[q] = {} => answer \subseteq wanted
            /\ "\\" \notin Special[q] =>
                 wanted \subseteq answer \/ Cardinality(answer) = SearchLimit
=============================================================================
