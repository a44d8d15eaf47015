--------------------------- MODULE MCSoundLoading ---------------------------
(***************************************************************************)
(* A small instance of SoundLoading: four names in two slots of the table, *)
(* a directory for each way to fail, and themes that use their sounds in   *)
(* order, twice, in reverse order, not at all, with several states and     *)
(* with thresholds that lack their level or their sound.                   *)
(***************************************************************************)
EXTENDS SoundLoading

MCHash == [n \in Names |-> IF n \in {"http", "login"} THEN 1 ELSE 2]
MCFiles == [d \in Dirs |-> CASE d = "missing" -> NoDir
                             [] d = "broken" -> 2
                             [] OTHER -> 1]

event(n, d) == [name |-> n, path |-> d]
MCEventSections ==
    {event("http", "good"), event("login", "good"), event("http", "broken"),
     event("login", None)}

level(l, d) == [level |-> l, path |-> d]
state(n, ts) == [name |-> n, thresholds |-> ts]
MCStateSections ==
    {state("load", <<>>),
     state("load", <<level(1, "good"), level(2, "good")>>),
     state("users", <<level(2, "good")>>),
     state("users", <<level(1, "good"), level(2, "broken")>>),
     state("users", <<level(0, "good")>>),
     state(None, <<level(1, "good")>>)}

sound(n, d) == [name |-> n, path |-> d]
themeEvent(n, s) == [name |-> n, sound |-> s]
threshold(l, s) == [level |-> l, sound |-> s]
theme(snds, evs, sts) == [sounds |-> snds, events |-> evs, states |-> sts]
TwoSounds == <<sound("a", "good"), sound("b", "good")>>
MCThemes ==
    {theme(TwoSounds, <<themeEvent("http", "a"), themeEvent("login", "b")>>,
           <<>>),
     theme(TwoSounds, <<themeEvent("http", "a"), themeEvent("login", "a")>>,
           <<state("load", <<threshold(1, "b")>>)>>),
     theme(TwoSounds, <<themeEvent("http", "b"), themeEvent("login", "a")>>,
           <<>>),
     theme(TwoSounds, <<themeEvent("http", "a")>>, <<>>),
     theme(<<sound("a", "good"), sound("b", "good"), sound("c", "good")>>,
           <<themeEvent("http", "b"), themeEvent("login", "a")>>,
           <<state("load", <<threshold(1, "c")>>)>>),
     theme(<<sound("c", "broken"), sound("a", "good")>>,
           <<themeEvent("http", "c"), themeEvent(None, "a")>>, <<>>),
     theme(TwoSounds, <<>>,
           <<state("load", <<threshold(1, "a"), threshold(2, "b")>>)>>),
     theme(<<sound("c", "broken"), sound("m", "missing"), sound("a", "good")>>,
           <<>>,
           <<state("load", <<threshold(1, "m"), threshold(2, "c"),
                             threshold(3, "a")>>)>>),
     theme(TwoSounds, <<>>,
           <<state("load", <<threshold(1, "a")>>),
             state("users", <<threshold(1, "x"), threshold(2, "b")>>)>>),
     theme(<<sound("c", "broken"), sound("a", "good"), sound("b", "good")>>,
           <<themeEvent("http", "c")>>,
           <<state("load", <<threshold(None, None), threshold(1, "a"),
                             threshold(None, "b"), threshold(2, None)>>)>>),
     theme(<<sound("a", "good"), sound("b", "good"), sound("c", "good")>>,
           <<>>,
           <<state("users", <<threshold(1, "a"), threshold(None, "b"),
                              threshold(3, "c")>>)>>),
     theme(TwoSounds, <<>>,
           <<state(None, <<threshold(2, "b")>>)>>)}
=============================================================================
