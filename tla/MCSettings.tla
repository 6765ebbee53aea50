------------------------------ MODULE MCSettings ------------------------------
(* One location of one tenant, and its options. *)
EXTENDS EffectiveSettings, TLC

MCLocale == [en |-> "en-GB"]
MCFirstLayers == {[platform |-> [locale |-> "en-GB", entryMode |-> "invite",
                                 requireDisclosure |-> "yes"],
                   tenant |-> NothingHeld, bistro |-> NothingHeld]}
MCFirstOwner == <<"tenant", "bistro">>
MCFounding == {NothingHeld}
=============================================================================
