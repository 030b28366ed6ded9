-------------------------------- MODULE MCProbe --------------------------------
(* An instance of OfficialProbe for TLC: two roots that the brand suggests, *)
(* one of which redirects to the other; a sibling site; a root of another   *)
(* country, which may redirect to the brand's main site.                    *)
EXTENDS OfficialProbe

MCRedirects == {<<"brand.com", "brand.com">>, <<"brand.de", "brand.de">>, <<"brand.de", "brand.com">>,
                <<"brand-home.com", "brand-home.com">>, <<"brand.ch", "brand.ch">>, <<"brand.ch", "brand.com">>}
MCSurfaces == <<1, 1, 2>>
=============================================================================
