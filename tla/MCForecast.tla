----------------------------- MODULE MCForecast -----------------------------
(* Model-checking instance of Forecast: six kinds of lines, three of rows. *)
EXTENDS Forecast

MCSegs == (1 :> [long |-> FALSE, digit |-> FALSE, other |-> TRUE])
          @@ (2 :> [long |-> FALSE, digit |-> TRUE, other |-> FALSE])
          @@ (3 :> [long |-> TRUE, digit |-> FALSE, other |-> TRUE])
          @@ (4 :> [long |-> FALSE, digit |-> FALSE, other |-> FALSE])

Plain == [blank |-> FALSE, text |-> 1, shape |-> <<1>>, hexShape |-> <<1>>, clock |-> 0,
          named |-> 0, bare |-> 0, three |-> 0, path |-> None, route |-> None, unit |-> "none", lat |-> 0, ends |-> TRUE,
          errorish |-> FALSE, exceptional |-> FALSE, ip |-> None, cmd |-> None,
          agent |-> None, hour |-> None]

MCLines ==
    { BlankLine,
      [Plain EXCEPT !.text = 2, !.shape = <<2>>, !.exceptional = TRUE, !.three = 127,
                    !.unit = "s", !.lat = 1],
      [Plain EXCEPT !.text = 3, !.clock = 1, !.named = 200, !.three = 200, !.path = <<1, 2>>,
                    !.unit = "ms", !.lat = 2, !.ip = <<9>>, !.agent = <<6>>, !.hour = <<0, 1>>],
      [Plain EXCEPT !.text = 4, !.clock = 2, !.bare = 503, !.three = 503, !.path = <<1, 3>>,
                    !.unit = "ms", !.lat = 1, !.ip = <<8>>, !.agent = <<6>>, !.hour = <<0, 2>>],
      [Plain EXCEPT !.text = 5, !.clock = 3, !.shape = <<3>>, !.named = 500, !.three = 500,
                    !.route = <<4>>, !.unit = "s", !.lat = 1, !.ends = FALSE,
                    !.errorish = TRUE, !.cmd = <<7>>],
      [Plain EXCEPT !.text = 6, !.clock = 5, !.shape = <<2>>, !.hexShape = <<5>>,
                    !.path = <<4>>, !.errorish = TRUE, !.unit = "ms", !.lat = 1] }

MCAuditRows ==
    { [source |-> <<1>>, rule |-> <<1>>, failed |-> FALSE, lat |-> 2, conf |-> 90],
      [source |-> <<2>>, rule |-> None, failed |-> FALSE, lat |-> 5, conf |-> 40],
      [source |-> <<3>>, rule |-> None, failed |-> TRUE, lat |-> -1, conf |-> -1] }
=============================================================================
