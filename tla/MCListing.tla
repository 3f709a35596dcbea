----------------------------- MODULE MCListing -----------------------------
(***************************************************************************)
(* Three rows over two milliseconds, two values a column, pages of one row *)
(* and of two: a walk has up to three pages, and a tie in createdAt.       *)
(***************************************************************************)
EXTENDS Listing

MCId == 1 .. 3
MCTime == 1 .. 2
MCLimit == {1, 2}

(* Each page of the web, the tenant's own list, whose hidden statuses are  *)
(* not filters, and a client that bounds the dates.                        *)
MCPage == {InvoicesPage, TenantsPage, PropertiesPage, UnitsPage, PaymentsPage,
           Client(ListMyInvoices, {"period"}), Client(ListAnnouncements, {"toDate"}),
           Client(ListMaintenance, {"fromDate", "status"})}
=============================================================================
