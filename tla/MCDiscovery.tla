------------------------------- MODULE MCDiscovery -------------------------------
(* acme AB100 and bolt Volt 9 CD-200. Pages: 1 acme's homepage, 2 its product     *)
(* page, 3 a document on its support host, 4 the product in a shop named          *)
(* acmestore, 5 the product on a marketplace, 6 the variant AB100T in acme's      *)
(* site, 7 a blocked host, 8 bolt's product page, 9 acme.market: a marketplace    *)
(* named like it.                                                                *)
EXTENDS Discovery

W == [product |-> {"products"}, search |-> {"search"}, weak |-> {"review"}, support |-> {"manual"},
      catalog |-> {"catalog"}, locale |-> {"en"}, blocked |-> {"about"}, container |-> {"about"},
      context |-> {"wiki"}, accessory |-> {"case"}]
At(host, path) == [host |-> host, path |-> path, searches |-> FALSE, pdf |-> FALSE]
(* Further pages of acme.com: every address of two of these segments.             *)
Named == <<<<"products">>, <<"ab100">>, <<"ab100t">>, <<"ab10">>, <<"ab10", "0">>, <<"acmeab100">>,
           <<"volt", "9", "cd", "200">>, <<"volt", "10">>, <<"volt", "9a">>, <<"cd200">>, <<"pro">>>>
MorePages == [i \in 1 .. 121 |-> At("acme.com", <<Named[1 + ((i - 1) % 11)], Named[1 + ((i - 1) \div 11)]>>)]
MCPage ==
  <<At("acme.com", << >>), At("acme.com", <<<<"products">>, <<"ab100">>>>),
    At("support.acme.com", <<<<"manual">>, <<"ab100">>>>),
    At("acmestore.com", <<<<"products">>, <<"ab100">>>>),
    At("amazon.com", <<<<"products">>, <<"ab100">>>>),
    At("acme.com", <<<<"products">>, <<"ab100t">>>>),
    At("youtube.com", <<<<"ab100">>>>), At("bolt.com", <<<<"products">>, <<"cd200">>>>),
    At("acme.amazon.com", <<<<"products">>, <<"ab100", "gb">>>>)>>
    \o MorePages
Host(root, brand, suffix, resembles, kind) ==
  [root |-> root, brand |-> brand, suffix |-> suffix, resembles |-> resembles, kind |-> kind]
MCSite ==
  [h \in {"acme.com", "support.acme.com", "acmestore.com", "amazon.com", "youtube.com",
          "bolt.com", "acme.amazon.com"} |->
     CASE h = "acme.com" -> Host(h, "acme", "none", {"acme"}, "ordinary")
       [] h = "support.acme.com" -> Host("acme.com", "acme", "none", {}, "documents")
       [] h = "acmestore.com" -> Host(h, "acme", "store", {"acme"}, "retailer")
       [] h = "bolt.com" -> Host(h, "bolt", "none", {"bolt"}, "ordinary")
       [] h = "acme.amazon.com" -> Host("amazon.com", "amazon", "none", {"acme"}, "marketplace")
       [] h = "amazon.com" -> Host(h, "amazon", "none", {}, "marketplace")
       [] h = "youtube.com" -> Host(h, "youtube", "none", {}, "blocked")]
MCNearMisses == {<<"ab100", "ab10">>, <<"ab100", "ab100t">>, <<"ab10", "ab100t">>}
Longer(word, tail) == [of |-> word, tail |-> tail, close |-> TRUE]
MCExtension == [w \in {"ab100t", "9a"} |-> IF w = "9a" THEN Longer("9", "a") ELSE Longer("ab100", "t")]
MCContained == [w \in {"acmeab100", "cd200"} |-> IF w = "cd200" THEN {"200"} ELSE {"ab100"}]
MCSplit == [w \in {"ab100", "cd200"} |-> IF w = "ab100" THEN {<<"ab10", "0">>} ELSE {<<"cd", "200">>}]
Sku(word) == <<[base |-> word, suffix |-> "none", size |-> 5]>>
AB100 == [brand |-> "acme", branded |-> "acmeab100", article |-> "none", suffix |-> "gb",
          model |-> [parts |-> <<"ab100">>, key |-> "ab100", spellings |-> {<<"ab100">>, <<"ab10", "0">>},
                     skus |-> Sku("ab100")]]
Volt == [brand |-> "bolt", branded |-> "boltvolt9cd200", article |-> "none", suffix |-> "gb",
         model |-> [parts |-> <<"volt", "9", "cd", "200">>, key |-> "volt9cd200",
                    spellings |-> {<<"volt", "9", "cd", "200">>}, skus |-> Sku("cd200")]]
MCProducts == {AB100, Volt}
MCHinted == [b \in {"acme", "bolt"} |-> IF b = "acme" THEN "acme.com" ELSE "bolt.com"]
MCBaseForms == <<"plain">>
Symmetry == Permutations(Threads)

R(page, title) == [page |-> page, title |-> title, snippet |-> << >>, provider |-> "p", query |-> << >>]
Home == R(1, <<<<"acme">>, <<"official">>>>)
ProductPage == R(2, <<<<"acme">>, <<"ab100">>>>)
Redacted == R(3, <<<<"support">>>>)
Shop == R(4, <<<<"acme">>, <<"ab100">>>>)
Variant == R(6, <<<<"acme">>, <<"ab100">>>>)
Market == R(9, <<<<"acme">>, <<"ab100", "gb">>, <<"official">>>>)
Blocked == R(7, <<<<"ab100">>>>)
Invalid == [R(7, << >>) EXCEPT !.page = NoPage]
Other == R(8, <<<<"bolt">>, <<"cd200">>, <<"official">>>>)

Success(results) == [results |-> results, success |-> TRUE, issues |-> {}, exhausted |-> FALSE]
Failure(status) == [results |-> << >>, success |-> FALSE, issues |-> {status}, exhausted |-> FALSE]
Exhausted == [Failure("timeout") EXCEPT !.exhausted = TRUE]
Found == [Success(<<ProductPage, Variant, [ProductPage EXCEPT !.provider = "q"]>>) EXCEPT !.issues = {"blocked"}]
MCAnswers ==
  [f \in {"plain", "hinted", "official", "website", "authority", "field", "site", "rest"} |->
     CASE f = "plain" -> {Success(<<Shop, Invalid, Blocked>>), Found, Exhausted}
       [] f = "hinted" -> {Success(<<ProductPage, Redacted>>), Failure("blocked")}
       [] f = "official" -> {Success(<<Market, Home>>), Exhausted}
       [] f = "website" -> {Success(<<Home, Other>>), Exhausted}
       [] f = "authority" -> {Success(<<Home>>), Failure("low_value")}
       [] f = "field" -> {Success(<<ProductPage, Market, Redacted>>), Success(<<Other, Variant>>)}
       [] f = "site" -> {Success(<<Redacted, Variant>>), Exhausted}
       [] f = "rest" -> {Success(<<ProductPage>>), Exhausted}]
=============================================================================
