--------------------------- MODULE MCZoneRecords ---------------------------
(* A small instance of ZoneRecords: the apex with its SOA and NS RRsets, one *)
(* name with addresses and texts, spelled with the domain, without it and in *)
(* upper case, and one that holds the domain twice.                          *)
EXTENDS ZoneRecords, TLC

MCDomain == <<"zone">>
Www == <<"www">>
WwwFull == <<"www", "zone">>
Upper == <<"WWW">>
Twice == <<"www", "zone", "zone">>

MCLower == [l \in {"www", "WWW", "zone"} |-> IF l = "WWW" THEN "www" ELSE l]

MCKeys == {<<WwwFull, "A">>, <<WwwFull, "TXT">>, <<Twice, "A">>,
           <<MCDomain, "NS">>, <<MCDomain, "SOA">>}

One == Content(<<"1", "1">>, FALSE)
Two == Content(<<"2", "2">>, FALSE)
Half == Content(<<"2">>, FALSE)
Ab == Content(<<"a", "b">>, FALSE)
Cd == Content(<<"c", "d">>, TRUE)
Empty == Content(<<>>, FALSE)

\* Delegated zones: bare, and with two addresses and a text at www.
Zone(a, txt) ==
    [k \in MCKeys |->
        CASE k[2] = "A" -> a
          [] k = <<WwwFull, "TXT">> -> txt
          [] OTHER -> <<One>>]

MCZones == {Zone(<<>>, <<>>), Zone(<<One, Two>>, <<Content(<<"z", "z">>, TRUE)>>)}

Item(name, type, content) == [name |-> name, type |-> type, content |-> content]

Req(op, mode, dry, items) == [op |-> op, mode |-> mode, dry |-> dry, items |-> items]

File == <<Item(MCDomain, "NS", Two), Item(WwwFull, "A", Two),
          Item(Www, "TXT", Ab), Item(Upper, "TXT", Cd), Item(Www, "TXT", Empty)>>

ApiCalls ==
    {Req("create", "merge", FALSE, <<Item(WwwFull, "A", Two)>>),
     Req("create", "merge", FALSE, <<Item(Www, "A", Half), Item(WwwFull, "TXT", Ab)>>),
     Req("update", "merge", FALSE, <<Item(Www, "TXT", Cd)>>),
     Req("update", "merge", FALSE, <<Item(MCDomain, "NS", Two)>>),
     Req("delete", "merge", FALSE, <<Item(Www, "A", Empty)>>),
     Req("delete", "merge", FALSE, <<Item(MCDomain, "SOA", Empty)>>)}
    \cup {Req("bulkDelete", "merge", dry, <<Item(WwwFull, "A", Empty), Item(Www, "TXT", Empty)>>) :
              dry \in BOOLEAN}

Imports ==
    {Req("import", mode, FALSE, File) : mode \in {"merge", "replace", "update"}}
    \cup {Req("import", "replace", TRUE, File), Req("import", "merge", FALSE, <<>>)}

MCRequests == ApiCalls \cup Imports \cup {Req("dnssec", "merge", FALSE, <<>>)}

MCEntries == UNION {Range(r.items) : r \in MCRequests}
MCTexts == {<<>>, <<"1">>, <<"2">>, <<"a">>, <<"c">>, <<"z">>} \cup {<<b, b>> : b \in {"1", "2", "z"}}
           \cup {<<"a", "b">>, <<"c", "d">>}

Symmetry == Permutations(Clients)
=============================================================================
