---------------------- MODULE MCBidiMessagingProtocol ----------------------
(***************************************************************************)
(* Values of the constants of BidiMessagingProtocol for model checking.    *)
(***************************************************************************)
EXTENDS BidiMessagingProtocol, TLC

\* a ConcurrentHashMap of 16 bins iterates over these names in this order: their
\* hashes fall into the bins 8, 9 and 13
MCOrder == <<"royi", "carmela", "roy">>

Place(n) == CHOOSE i \in DOMAIN MCOrder : MCOrder[i] = n

MCFirstOf ==
  [S \in SUBSET Name |->
     IF S = {} THEN "none" ELSE CHOOSE n \in S : \A m \in S : Place(n) <= Place(m)]

MCLastOf ==
  [S \in SUBSET Name |->
     IF S = {} THEN "none" ELSE CHOOSE n \in S : \A m \in S : Place(n) >= Place(m)]

\* none of the names occurs in another
MCApart == {<<n, n>> : n \in Name}

\* a later registered "royi" is found for the typed "roy"
MCNested == MCApart \cup {<<"royi", "roy">>}

\* connections differ in nothing but their ids
MCSymmetry == Permutations(Conn)

MCNameEach == {{n} : n \in Name}

MCNoneOrCarmela == {{}, {"carmela"}}

MCCarmela == {{"carmela"}}

\* no tag, one, and the same one twice
MCTags == {<<>>, <<"carmela">>, <<"carmela", "carmela">>}

MCNoTags == {<<>>}

\* explore no further once two different checks were outdated in one behaviour
MCFewStale == Cardinality(stale) <= 1

\* explore no further once another check was outdated than one of a post or a PM
MCSendStale == \A s \in stale : s[1] \in {"deliver", "sendPost", "sendPm"}

\* explore no further once racing REGISTERs replaced an account
MCOneAccount == \A n \in Name : usersMap[n] <= 1

MCAccountOps == {"REGISTER", "LOGIN", "LOGOUT"}
=============================================================================
