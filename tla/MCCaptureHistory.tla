---- MODULE MCCaptureHistory ----
(* The pages and the setups of the run. *)
EXTENDS CaptureHistory

Page == [status |-> "none", reach |-> <<"answer">>, place |-> "home", title |-> "shop", shown |-> "shop",
         words |-> "w1", forms |-> "f1", layout |-> 0, depth |-> "full"]

Down      == [Page EXCEPT !.reach = <<"refused">>, !.place = "none", !.title = "none",
                          !.words = "none", !.forms = "none", !.depth = "partial"]
Uncertain == [Down EXCEPT !.reach = <<"tls", "refused">>]
Reworded  == [Page EXCEPT !.words = "w2"]
Shifted   == [Page EXCEPT !.layout = 1]
Moved     == [Page EXCEPT !.layout = 2]
Sale      == [Page EXCEPT !.title = "sale", !.shown = "sale", !.words = "w2"]
Expired   == [Sale EXCEPT !.reach = <<"tls", "answer">>]
Scripted  == [Page EXCEPT !.title = "none", !.shown = "sale"]
NoBudget  == [Page EXCEPT !.depth = "budget"]

Both(page) == [http |-> page, https |-> page]

MCVisits ==
  {Both(p) : p \in {Page, Shifted, Moved}}
  \cup {[http |-> Sale, https |-> Expired], [http |-> Reworded, https |-> Expired],
        [http |-> NoBudget, https |-> Uncertain], [http |-> Scripted, https |-> Down]}

Ask == [mode |-> "changes", comparison |-> "text", refresh |-> 1, rules |-> {}, route |-> "direct"]

MCSetups == {Ask, [Ask EXCEPT !.comparison = "title"],
             [Ask EXCEPT !.rules = {"sale"}, !.refresh = 0, !.route = "proxy"]}
====
