---------------------------- MODULE MCCertificates ----------------------------
(* Instances of Certificates for TLC: two projects that use the same keys for  *)
(* fonts of their own, and one project whose configuration varies.             *)
EXTENDS Certificates

CONSTANTS p1, p2

Strings == {"r1", "r2", "t1", "t2", "m", "e", "a", "b", "name", "dob", "phone", "sbd"}
Cells == {"An", "AN", "Le", "1/6/2010", "01-06-2010", "0901", "Gold", "GOLD", "Silver"}
Lower == [x \in Cells |-> CASE x = "AN" -> "An" [] x = "GOLD" -> "Gold" [] OTHER -> x]
Normal ==
  [f \in Factors |-> [x \in Cells \cup {Blank} |->
     IF x = Blank THEN x
     ELSE IF x = "1/6/2010" /\ f = "dob" THEN "01-06-2010" ELSE Lower[x]]]

ByName == [name |-> "AN", dob |-> "01-06-2010", phone |-> Blank]
ByPhone == [name |-> Blank, dob |-> Blank, phone |-> "0901"]
KnownFactors == {ByName, ByPhone}

Base ==
  [rounds |-> <<[id |-> "r1", table |-> "t1", pdf |-> "t1"],
                [id |-> "r2", table |-> "t2", pdf |-> "t2"]>>,
   subjects |-> <<[code |-> "m", db_col |-> "a"], [code |-> "e", db_col |-> "b"]>>,
   results |-> "m" :> <<[name |-> "Gold", page |-> 1], [name |-> "Silver", page |-> 2]>>
               @@ "e" :> <<[name |-> "Gold", page |-> 2]>>,
   data_mapping |-> [sbd |-> "sbd", name |-> "name", dob |-> "dob", school |-> Unset,
                     phone |-> "phone", extra |-> <<>>],
   layout |-> "name" :> "serif",
   fonts |-> "serif" :> "serif.ttf",
   mode |-> "name_dob_captcha",
   shipment |-> [statuses |-> <<"Gold">>, fields |-> <<"a">>, public_fields |-> {},
                 import |-> [profiles |-> {"a"}, default |-> Unset]]]

\* Accepted and refused, in turn.
Documents ==
  <<Base,
    [Base EXCEPT !.mode = "sbd_phone", !.layout = "name" :> "serif" @@ "dob" :> "serif",
                 !.data_mapping.dob = Unset, !.data_mapping.extra = <<"dob", "name", "dob">>],
    [Base EXCEPT !.mode = "name_sbd_captcha"],
    [Base EXCEPT !.mode = "sbd_phone", !.data_mapping.phone = Unset],
    [Base EXCEPT !.rounds[2].table = "t1"],
    [Base EXCEPT !.rounds[2].id = "r1"],
    [Base EXCEPT !.subjects[2].code = "m", !.results = "m" :> Base.results["m"]],
    [Base EXCEPT !.results["m"][2].page = 1],
    [Base EXCEPT !.results["m"][2].name = "GOLD"],
    [Base EXCEPT !.layout = "name" :> "serif" @@ "dob" :> "sans"]>>

Row(name, math, english) ==
  "sbd" :> "Le" @@ "name" :> name @@ "dob" :> "1/6/2010" @@ "phone" :> "0901"
    @@ "a" :> math @@ "b" :> english
Rows == << <<Row("An", "Gold", "Gold"), Row("AN", "Silver", Blank)>>,
           <<Row("An", Blank, "Gold"), NoRow>> >>

Project(c, row1, row2) ==
  LET ingested(row) == IF row = NoRow THEN NoRow ELSE [col \in Columns(c) |-> row[col]]
  IN [document |-> c, rows |-> "t1" :> ingested(row1) @@ "t2" :> ingested(row2),
      pages |-> "t1" :> 2 @@ "t2" :> 2]
Off == Project([Base EXCEPT !.rounds = <<>>], NoRow, NoRow)

Variants ==
  [n \in 1..(2 * Len(Documents)) |->
     LET rows == Rows[1 + (n % 2)]
     IN p1 :> Project(Documents[(n + 1) \div 2], rows[1], rows[2]) @@ p2 :> Off]

\* One round and one subject, and nobody who knows the student's name.
Small ==
  Project([Base EXCEPT !.rounds = <<@[1]>>, !.subjects = <<@[1]>>,
                       !.results = "m" :> Base.results["m"]],
          Row("Silver", "Gold", Blank), NoRow)
AllSetups == <<p1 :> Small @@ p2 :> Small>> \o Variants
=============================================================================
