-------------------------------- MODULE School --------------------------------
(* The school management system of Object Oriented Programming, PA3: the     *)
(* lists of students and courses, each student's list of courses taken, each *)
(* course's list of students, and the menus through which they change.       *)
(*                                                                           *)
(* The two kinds of lists hold copies made when a student is added to a      *)
(* course, so of a copy the model keeps the ID or the code.  Arrays grow as  *)
(* needed: they are sequences.  The program is over when the user leaves it  *)
(* and when it uses an object that is not there (outcome "undefined").       *)
EXTENDS Integers, SequencesExt

CONSTANTS
  SIDs, Codes,     (* the numbers and the codes that the user types           *)
  MaxStudents, MaxCourses,   (* bounds: the lists                             *)
  MaxRegistered    (* bound: the students of all courses together             *)

VARIABLES
  students,        (* [ID, courses]                                           *)
  courses,         (* [code, students]                                        *)
  menu,            (* the menu that is shown                                  *)
  selected         (* the place of the selected student or course, or 0       *)

hvars == <<students, courses, menu, selected>>

TypeOK ==
  /\ students \in Seq([ID : SIDs, courses : Seq(Codes)]) /\ Len(students) <= MaxStudents
  /\ courses \in Seq([code : Codes, students : Seq(SIDs)]) /\ Len(courses) <= MaxCourses
  /\ menu \in {"main", "students", "student", "courses", "course", "exit", "undefined"}
  /\ selected \in 0 .. MaxStudents + MaxCourses

Init == students = <<>> /\ courses = <<>> /\ menu = "main" /\ selected = 0

IndexOfID(id)     == SelectInSeq(students, LAMBDA s : s.ID = id)
IndexOfCode(code) == SelectInSeq(courses, LAMBDA c : c.code = code)

Registrations == FlattenSeq([k \in DOMAIN courses |-> courses[k].students])

ShowMenu(from, to) == menu = from /\ menu' = to
-----------------------------------------------------------------------------
(* Moving between the menus; the lists that can be printed change nothing. *)
Up ==
  /\ menu' = CASE menu = "main"    -> "exit"
               [] menu = "student" -> "students"
               [] menu = "course"  -> "courses"
               [] OTHER            -> "main"
  /\ menu \in {"main", "students", "student", "courses", "course"}
  /\ selected' = 0
  /\ UNCHANGED <<students, courses>>

Down ==
  /\ ShowMenu("main", "students") \/ ShowMenu("main", "courses")
  /\ UNCHANGED <<students, courses, selected>>

(* A word that is no number ends add_student and select_student, and an ID   *)
(* or code that nobody has makes select_student and select_course return     *)
(* what happens to be in a register.                                         *)
Mistype ==
  /\ ShowMenu("students", "undefined")
  /\ UNCHANGED <<students, courses, selected>>

add_student ==
  /\ ShowMenu("students", "students") /\ Len(students) < MaxStudents
  /\ \E id \in SIDs : students' = Append(students, [ID |-> id, courses |-> <<>>])
  /\ UNCHANGED <<courses, selected>>

add_course ==
  /\ ShowMenu("courses", "courses") /\ Len(courses) < MaxCourses
  /\ \E code \in Codes : courses' = Append(courses, [code |-> code, students |-> <<>>])
  /\ UNCHANGED <<students, selected>>

select_student ==
  /\ \E id \in SIDs :
       /\ selected' = IndexOfID(id)
       /\ ShowMenu("students", IF IndexOfID(id) = 0 THEN "undefined" ELSE "student")
  /\ UNCHANGED <<students, courses>>

select_course ==
  /\ \E code \in Codes :
       /\ selected' = IndexOfCode(code)
       /\ ShowMenu("courses", IF IndexOfCode(code) = 0 THEN "undefined" ELSE "course")
  /\ UNCHANGED <<students, courses>>
-----------------------------------------------------------------------------
(* The selected student joins a course that list_courses offers: one whose   *)
(* code is none of the codes taken.                                          *)
list_courses(s) ==
  {k \in DOMAIN courses : ~Contains(s.courses, courses[k].code)}

AddToCourse ==
  /\ ShowMenu("student", "student")
  /\ \E k \in list_courses(students[selected]) :
       /\ Len(Registrations) < MaxRegistered
       /\ students' = [students EXCEPT ![selected].courses = Append(@, courses[k].code)]
       /\ courses' = [courses EXCEPT ![k].students = Append(@, students[selected].ID)]
  /\ UNCHANGED selected

(* remove_course moves the later courses up in the student's own array, from *)
(* which the course to remove the student from is read only then: it is the  *)
(* copy of the next course taken, or a null pointer after the last one.  The *)
(* course itself keeps the student.                                          *)
DropCourse ==
  /\ menu = "student"
  /\ \E i \in DOMAIN students[selected].courses :
       /\ students' = [students EXCEPT ![selected].courses = RemoveAt(@, i)]
       /\ ShowMenu("student",
            IF i = Len(students[selected].courses) THEN "undefined" ELSE "student")
  /\ UNCHANGED <<courses, selected>>

(* A number that the list does not have. *)
ChooseBeyond ==
  /\ ShowMenu("student", "undefined")
  /\ UNCHANGED <<students, courses, selected>>
-----------------------------------------------------------------------------
(* Deleting goes on after the element is gone: the next one, which has moved *)
(* up, is skipped, and one behind that with the same ID or code makes the    *)
(* program delete the same object again.                                     *)
DeletedTwice(keys) == \E j \in selected + 2 .. Len(keys) : keys[j] = keys[selected]

(* delete_student takes the student from the first course of each code that  *)
(* he takes.                                                                 *)
delete_student ==
  LET s == students[selected] IN
  /\ ShowMenu("student",
       IF DeletedTwice([k \in DOMAIN students |-> students[k].ID]) THEN "undefined" ELSE "students")
  /\ courses' = [k \in DOMAIN courses |->
       IF Contains(s.courses, courses[k].code) /\ k = IndexOfCode(courses[k].code)
       THEN [courses[k] EXCEPT !.students = RemoveFirst(@, s.ID)] ELSE courses[k]]
  /\ students' = RemoveAt(students, selected)
  /\ selected' = 0

(* Faulty variant of delete_course, no part of the specification: the first  *)
(* student of the course only forgets it.                                    *)
delete_course_first ==
  LET c == courses[selected] IN
  /\ ShowMenu("course",
       IF DeletedTwice([k \in DOMAIN courses |-> courses[k].code]) THEN "undefined" ELSE "courses")
  /\ students' = [k \in DOMAIN students |->
       IF c.students # <<>> /\ c.students[1] = students[k].ID /\ k = IndexOfID(students[k].ID)
       THEN [students[k] EXCEPT !.courses = RemoveFirst(@, c.code)] ELSE students[k]]
  /\ courses' = RemoveAt(courses, selected)
  /\ selected' = 0

(* delete_course lets the first student of each ID in it forget the course. *)
delete_course ==
  LET c == courses[selected] IN
  /\ ShowMenu("course",
       IF DeletedTwice([k \in DOMAIN courses |-> courses[k].code]) THEN "undefined" ELSE "courses")
  /\ students' = [k \in DOMAIN students |->
       IF Contains(c.students, students[k].ID) /\ k = IndexOfID(students[k].ID)
       THEN [students[k] EXCEPT !.courses = RemoveFirst(@, c.code)] ELSE students[k]]
  /\ courses' = RemoveAt(courses, selected)
  /\ selected' = 0
-----------------------------------------------------------------------------
Next ==
  \/ Up \/ Down \/ Mistype \/ add_student \/ add_course \/ select_student \/ select_course
  \/ AddToCourse \/ DropCourse \/ ChooseBeyond \/ delete_student \/ delete_course

Spec == Init /\ [][Next]_hvars
-----------------------------------------------------------------------------
(* Properties. *)

(* As long as the program has done nothing undefined, a student takes each   *)
(* course once, the course exists and has the student in its list: whatever  *)
(* is deleted, and also when IDs or codes are used twice.  list_courses      *)
(* relies on it for the size of its array                                    *)
(* (SchoolManagementSystem.cpp:142-191, 285-311).                            *)
TakenAreRegistered ==
  menu # "undefined" =>
    \A s \in ToSet(students) :
      /\ IsInjective(s.courses)
      /\ \A code \in ToSet(s.courses) :
           \E c \in ToSet(courses) : c.code = code /\ Contains(c.students, s.ID)
=============================================================================
