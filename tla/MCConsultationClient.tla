------------------------ MODULE MCConsultationClient ------------------------
(* ConsultationClient with what a user, the network and the service may do *)
(* in each of its runs.                                                    *)
EXTENDS ConsultationClient

None == [k \in Kinds |-> 0]
ChatBudget == [None EXCEPT !["fault"] = 1, !["start"] = 2, !["say"] = 2, !["send"] = 3,
                           !["leave"] = 1]
TryBudget == [None EXCEPT !["fault"] = 1, !["start"] = 1, !["say"] = 1,
                          !["reload"] = 1, !["signin"] = 1, !["account"] = 1]
FirstBudget == [None EXCEPT !["start"] = 1]
=============================================================================
